---------------------------- MODULE Spec2Model ----------------------------
(* Verification model of the whopScrapper discovery crawler               *)
(* (src/scraper.js).  Strings are sequences of one-character strings, so  *)
(* that includes / startsWith / split / match are computed on characters. *)
EXTENDS Integers, Sequences, FiniteSets, TLC

(**************************************************************************)
(* String primitives used by the JavaScript source                        *)
(**************************************************************************)

\* String.prototype.startsWith
StartsWith(s, p) ==
    /\ Len(p) <= Len(s)
    /\ SubSeq(s, 1, Len(p)) = p

\* String.prototype.endsWith
EndsWith(s, p) ==
    /\ Len(p) <= Len(s)
    /\ SubSeq(s, Len(s) - Len(p) + 1, Len(s)) = p

\* String.prototype.includes
Includes(s, p) ==
    \E i \in 1..(Len(s) - Len(p) + 1) : SubSeq(s, i, i + Len(p) - 1) = p

\* s.split(c)[0] : the part of s before the first occurrence of character c
BeforeFirst(s, c) ==
    IF \E i \in 1..Len(s) : s[i] = c
    THEN LET k == CHOOSE i \in 1..Len(s) : s[i] = c /\ \A j \in 1..(i - 1) : s[j] # c
         IN  SubSeq(s, 1, k - 1)
    ELSE s

\* s.split("/") : the segments of s between slashes (an empty s gives <<"">>)
RECURSIVE SplitSlash(_)
SplitSlash(s) ==
    IF \E i \in 1..Len(s) : s[i] = "/"
    THEN LET k == CHOOSE i \in 1..Len(s) : s[i] = "/" /\ \A j \in 1..(i - 1) : s[j] # "/"
         IN  <<SubSeq(s, 1, k - 1)>> \o SplitSlash(SubSeq(s, k + 1, Len(s)))
    ELSE <<s>>

(**************************************************************************)
(* String literals of the source                                          *)
(**************************************************************************)

Http == <<"h", "t", "t", "p">>
SchemeHttp == <<"h", "t", "t", "p", ":", "/", "/">>
SchemeHttps == <<"h", "t", "t", "p", "s", ":", "/", "/">>
WhopOrigin == SchemeHttps \o <<"w", "h", "o", "p", ".", "c", "o", "m">>
DiscoverSeg == <<"d", "i", "s", "c", "o", "v", "e", "r">>
SearchSeg == <<"s", "e", "a", "r", "c", "h">>
SlashDiscoverSlash == <<"/">> \o DiscoverSeg \o <<"/">>
SlashSearch == <<"/">> \o SearchSeg
SlashDiscoverSearch == <<"/">> \o DiscoverSeg \o SlashSearch
SlashSearchQ == SlashSearch \o <<"?">>

\* the value standing for "no URL" (a rejected href)
NoUrl == <<>>

(**************************************************************************)
(* Regular expressions of the source                                      *)
(**************************************************************************)

\* /^https?:\/\/[^\/]+\/discover\/([^\/]+)\/([^\/]+)\/?$/
MatchAnchored(s) ==
    LET rest == IF StartsWith(s, SchemeHttps) THEN SubSeq(s, Len(SchemeHttps) + 1, Len(s))
                ELSE IF StartsWith(s, SchemeHttp) THEN SubSeq(s, Len(SchemeHttp) + 1, Len(s))
                ELSE NoUrl
        segs == SplitSlash(rest)
        n    == Len(segs)
    IN  /\ StartsWith(s, SchemeHttps) \/ StartsWith(s, SchemeHttp)
        /\ n \in {4, 5}
        /\ segs[1] # <<>>
        /\ segs[2] = DiscoverSeg
        /\ segs[3] # <<>>
        /\ segs[4] # <<>>
        /\ n = 5 => segs[5] = <<>>

\* /\/discover\/([^\/]+)\/([^\/]+)\/?$/ ; the result is <<matched, seg1, seg2>>
MatchTail(s) ==
    LET segs == SplitSlash(s)
        n    == Len(segs)
        k    == IF segs[n] = <<>> THEN n - 1 ELSE n
    IN  IF /\ k >= 4
           /\ segs[k] # <<>>
           /\ segs[k - 1] # <<>>
           /\ segs[k - 2] = DiscoverSeg
        THEN <<TRUE, segs[k - 1], segs[k]>>
        ELSE <<FALSE, <<>>, <<>>>>

\* /\/discover\/([^\/]+)\/([^\/]+)/
MatchAnywhere(s) ==
    LET segs == SplitSlash(s)
        n    == Len(segs)
    IN  \E k \in 2..(n - 2) :
            /\ segs[k] = DiscoverSeg
            /\ segs[k + 1] # <<>>
            /\ segs[k + 2] # <<>>

\* cleanHref.endsWith('/') ? cleanHref.slice(0, -1) : cleanHref
StripSlash(s) ==
    IF EndsWith(s, <<"/">>) THEN SubSeq(s, 1, Len(s) - 1) ELSE s

\* a clean-up that strips the query string but forgets the fragment
CleanHrefQueryOnly(s) == BeforeFirst(s, "?")

\* href.split('?')[0].split('#')[0]
CleanHref(s) == BeforeFirst(BeforeFirst(s, "?"), "#")


(**************************************************************************)
(* Insertion-ordered Set of JavaScript, as a duplicate-free sequence      *)
(**************************************************************************)

Range(seq) == {seq[i] : i \in 1..Len(seq)}

\* Set.prototype.add / the seenUrls-guarded push; NoUrl stands for "nothing to add"
SetAdd(seq, x) ==
    IF x = NoUrl \/ x \in Range(seq) THEN seq ELSE Append(seq, x)

\* xs.forEach(url => set.add(url))
RECURSIVE AddAll(_, _)
AddAll(seq, xs) ==
    IF xs = <<>> THEN seq ELSE AddAll(SetAdd(seq, Head(xs)), Tail(xs))

Min(a, b) == IF a <= b THEN a ELSE b

(**************************************************************************)
(* Canonicalisation of one href by each extraction path                   *)
(**************************************************************************)

CategoryEq == <<"c", "a", "t", "e", "g", "o", "r", "y", "=">>

\* Strategy 1 of the initial scan, for one anchor href
Strategy1Href(href) ==
    IF Includes(href, SlashDiscoverSearch) \/ Includes(href, SlashSearchQ) THEN NoUrl
    ELSE IF ~StartsWith(href, <<"/">>) /\ ~StartsWith(href, Http) THEN NoUrl
    ELSE LET abs   == IF StartsWith(href, <<"/">>) THEN WhopOrigin \o href ELSE href
             clean == CleanHref(abs)
         IN  IF MatchAnchored(clean) /\ ~Includes(clean, SlashSearch)
             THEN StripSlash(clean)
             ELSE NoUrl

\* Strategy 2 of the initial scan, for the first anchor of one container
Strategy2Href(href) ==
    IF Includes(href, SlashDiscoverSearch) \/ Includes(href, SlashSearchQ) THEN NoUrl
    ELSE IF /\ ~(StartsWith(href, SlashDiscoverSlash) /\ ~StartsWith(href, SlashDiscoverSearch))
            /\ ~StartsWith(href, Http)
         THEN NoUrl
    ELSE LET abs   == IF StartsWith(href, SlashDiscoverSlash) /\ ~StartsWith(href, SlashDiscoverSearch)
                      THEN WhopOrigin \o href ELSE href
             clean == CleanHref(abs)
             m     == MatchTail(clean)
         IN  IF m[1] /\ m[2] # SearchSeg /\ m[3] # SearchSeg /\ ~Includes(clean, SlashSearch)
             THEN StripSlash(clean)
             ELSE NoUrl

\* Strategy 3 of the initial scan, for one anchor href
Strategy3Href(href) ==
    IF \/ Includes(href, SlashDiscoverSearch)
       \/ Includes(href, SlashSearchQ)
       \/ Includes(href, CategoryEq)
    THEN NoUrl
    ELSE IF ~Includes(href, SlashDiscoverSlash) \/ Includes(href, SlashSearch) THEN NoUrl
    ELSE Strategy2Href(href)

\* the loop's extractProducts, for one anchor href
ExtractHref(href) ==
    IF Includes(href, SlashDiscoverSearch) \/ Includes(href, SlashSearchQ) THEN NoUrl
    ELSE IF ~StartsWith(href, <<"/">>) /\ ~StartsWith(href, Http) THEN NoUrl
    ELSE LET abs   == IF StartsWith(href, <<"/">>) THEN WhopOrigin \o href ELSE href
             clean == CleanHref(abs)
         IN  IF MatchAnchored(clean) /\ ~Includes(clean, SlashSearch)
             THEN StripSlash(clean)
             ELSE NoUrl

\* normalisation of one href taken from window.detectedProducts
MutationUrl(url) ==
    LET abs   == IF StartsWith(url, <<"/">>) THEN WhopOrigin \o url ELSE url
        clean == CleanHref(abs)
    IN  IF MatchAnywhere(clean) THEN clean ELSE NoUrl

(**************************************************************************)
(* The simulated site                                                     *)
(**************************************************************************)

PathAB == SlashDiscoverSlash \o <<"a", "/", "b">>
PathCD == SlashDiscoverSlash \o <<"c", "/", "d">>
PathEF == SlashDiscoverSlash \o <<"e", "/", "f">>

\* a results page: plain, trailing-slash, absolute and locale-prefixed links
FeedCatalog ==
    { [href |-> PathAB, card |-> FALSE, wrapped |-> TRUE],
      [href |-> PathAB \o <<"/">>, card |-> FALSE, wrapped |-> TRUE],
      [href |-> WhopOrigin \o PathCD \o <<"?", "r", "#", "x">>, card |-> TRUE, wrapped |-> FALSE],
      [href |-> WhopOrigin \o <<"/", "x">> \o PathEF, card |-> TRUE, wrapped |-> TRUE] }

\* a page whose markup drifted: the search link itself, a link only the
\* unfiltered scan accepts, and a product whose second segment is "search"
FeedDrift ==
    { [href |-> SlashDiscoverSearch \o <<"/", "?", "q", "=", "t">>, card |-> FALSE, wrapped |-> FALSE],
      [href |-> WhopOrigin \o <<"/", "y">> \o PathCD, card |-> FALSE, wrapped |-> FALSE],
      [href |-> SlashDiscoverSlash \o <<"a">> \o SlashSearch, card |-> FALSE, wrapped |-> TRUE] }

\* the contents the simulated site can serve for a query
Feeds == {FeedCatalog, FeedDrift}

\* every href the simulated site serves
FeedHrefs == {a.href : a \in UNION Feeds}

\* the per-href results, computed once for the hrefs of the simulated site
IsDiscoverLink == [h \in FeedHrefs |-> Includes(h, SlashDiscoverSlash)] @@ <<>>
Strategy1Of == [h \in FeedHrefs |-> Strategy1Href(h)] @@ <<>>
Strategy2Of == [h \in FeedHrefs |-> Strategy2Href(h)] @@ <<>>
Strategy3Of == [h \in FeedHrefs |-> Strategy3Href(h)] @@ <<>>
ExtractOf == [h \in FeedHrefs |-> ExtractHref(h)] @@ <<>>
MutationUrlOf == [h \in FeedHrefs |-> MutationUrl(h)] @@ <<>>

(**************************************************************************)
(* The document: anchors in document order.  card: the anchor is the      *)
(* first a[href] of an element matching the container selector of         *)
(* strategy 2.  wrapped: the node attached to the document was an element *)
(* containing the anchor, not the anchor itself.                          *)
(**************************************************************************)

\* the hrefs of document.querySelectorAll('a[href*="/discover/"]')
DiscoverLinks(d) ==
    SelectSeq([i \in 1..Len(d) |-> d[i].href], LAMBDA h : IsDiscoverLink[h])

\* the href of container.querySelector('a[href]') for every container
CardLinks(d) ==
    LET cards == SelectSeq(d, LAMBDA a : a.card)
    IN  [i \in 1..Len(cards) |-> cards[i].href]

\* the hrefs of document.querySelectorAll('a[href]')
AllLinks(d) == [i \in 1..Len(d) |-> d[i].href]

Strategy1(d) ==
    LET l == DiscoverLinks(d) IN AddAll(<<>>, [i \in 1..Len(l) |-> Strategy1Of[l[i]]])

Strategy2(d) ==
    LET l == CardLinks(d) IN AddAll(<<>>, [i \in 1..Len(l) |-> Strategy2Of[l[i]]])

Strategy3(d) ==
    LET l == AllLinks(d) IN AddAll(<<>>, [i \in 1..Len(l) |-> Strategy3Of[l[i]]])

\* an initial scan that runs every strategy and returns all they find
InitialExtractAll(d) ==
    AddAll(AddAll(Strategy1(d), Strategy2(d)), Strategy3(d))

\* the page.evaluate of the initial scan: the first non-empty strategy
InitialExtract(d) ==
    IF Strategy1(d) # <<>> THEN Strategy1(d)
    ELSE IF Strategy2(d) # <<>> THEN Strategy2(d)
    ELSE Strategy3(d)

\* an extraction pass that finds nothing
ExtractNothing(d) == <<>>

\* extractProducts()
ExtractProducts(d) ==
    LET l == DiscoverLinks(d) IN AddAll(<<>>, [i \in 1..Len(l) |-> ExtractOf[l[i]]])

\* getProductCountFromDOM(), and the predicate of waitForFunction
ProductCountInDOM(d) ==
    LET l == DiscoverLinks(d) IN Len(AddAll(<<>>, [i \in 1..Len(l) |-> ExtractOf[l[i]]]))

\* the MutationObserver callback for one attached node
ObserverCallback(det, a) ==
    IF ~a.wrapped
    THEN IF Includes(a.href, SlashDiscoverSlash) /\ ~Includes(a.href, SlashSearch)
         THEN SetAdd(det, a.href) ELSE det
    ELSE IF /\ Includes(a.href, SlashDiscoverSlash)
            /\ ~Includes(a.href, SlashDiscoverSearch)
            /\ ~Includes(a.href, SlashSearchQ)
         THEN SetAdd(det, a.href) ELSE det

\* mutationDetectedProducts.forEach(...): merge the accumulator into products
RECURSIVE MergeMutation(_, _)
MergeMutation(prods, det) ==
    IF det = <<>> THEN prods
    ELSE MergeMutation(SetAdd(prods, MutationUrlOf[Head(det)]), Tail(det))


(**************************************************************************)
(* Bounds and inputs of the discovery model                               *)
(**************************************************************************)

\* the largest number of anchors the page attaches during one run
MaxDoc == 4

\* the largest maxProducts a caller passes
MaxTarget == 5

\* const maxScrollAttempts = 20 : the cap the scroll loop reads
LoopMaxScrollAttempts == 20

\* maxAttemptsWithoutNewContent while currentProductCount < maxProducts
ToleranceBelowTarget == 5

\* maxAttemptsWithoutNewContent once currentProductCount >= maxProducts
ToleranceAtTarget == 3

\* DEFAULT_CONFIG.maxScrollAttempts
DefaultMaxScrollAttempts == 100

\* a maxScrollAttempts a caller sets in its config to shorten the crawl
CallerMaxScrollAttempts == 2

(**************************************************************************)
(* The detail extractor: scrapeProductPage                                *)
(**************************************************************************)

\* the empty string ''
EmptyStr == <<>>

UpperCase == <<"A", "B", "C", "D", "E", "F", "G", "H", "I", "J", "K", "L", "M", "N", "O", "P", "Q", "R", "S", "T", "U", "V", "W", "X", "Y", "Z">>
LowerCase == <<"a", "b", "c", "d", "e", "f", "g", "h", "i", "j", "k", "l", "m", "n", "o", "p", "q", "r", "s", "t", "u", "v", "w", "x", "y", "z">>
Digits == <<"0", "1", "2", "3", "4", "5", "6", "7", "8", "9">>

\* String.prototype.toLowerCase
LowerChar(c) ==
    IF \E i \in 1..Len(UpperCase) : UpperCase[i] = c
    THEN LowerCase[CHOOSE i \in 1..Len(UpperCase) : UpperCase[i] = c]
    ELSE c

ToLowerCase(s) == [i \in 1..Len(s) |-> LowerChar(s[i])]

\* the character class [a-zA-Z0-9_]
IsWordChar(c) ==
    \/ \E i \in 1..Len(UpperCase) : UpperCase[i] = c
    \/ \E i \in 1..Len(LowerCase) : LowerCase[i] = c
    \/ \E i \in 1..Len(Digits) : Digits[i] = c
    \/ c = "_"

\* String.prototype.trim (the pages use the blank as white space)
RECURSIVE TrimStart(_)
TrimStart(s) ==
    IF s # <<>> /\ Head(s) = " " THEN TrimStart(Tail(s)) ELSE s

RECURSIVE TrimEnd(_)
TrimEnd(s) ==
    IF s # <<>> /\ s[Len(s)] = " " THEN TrimEnd(SubSeq(s, 1, Len(s) - 1)) ELSE s

Trim(s) == TrimEnd(TrimStart(s))

\* String.prototype.replace(p, ''): drops the first occurrence of p
RECURSIVE RemoveFirst(_, _)
RemoveFirst(s, p) ==
    IF Len(s) < Len(p) THEN s
    ELSE IF StartsWith(s, p) THEN SubSeq(s, Len(p) + 1, Len(s))
    ELSE <<Head(s)>> \o RemoveFirst(Tail(s), p)

\* const WHOP_HANDLES = [...]
WHOP_HANDLES ==
    << <<"w", "h", "o", "p", "i", "o">>,
       <<"w", "h", "o", "p", "h", "q">>,
       <<"w", "h", "o", "p">>,
       <<"w", "h", "o", "p", "c", "o", "m">>,
       <<"w", "h", "o", "p", "_", "i", "o">>,
       <<"w", "h", "o", "p", "_", "h", "q">> >>

\* the platform-domain patterns of the social scan
TwitterCom == <<"t", "w", "i", "t", "t", "e", "r", ".", "c", "o", "m", "/">>
XCom == <<"x", ".", "c", "o", "m", "/">>
InstagramCom == <<"i", "n", "s", "t", "a", "g", "r", "a", "m", ".", "c", "o", "m", "/">>
YoutubeCom == <<"y", "o", "u", "t", "u", "b", "e", ".", "c", "o", "m", "/">>
TiktokCom == <<"t", "i", "k", "t", "o", "k", ".", "c", "o", "m", "/">>
DiscordGg == <<"d", "i", "s", "c", "o", "r", "d", ".", "g", "g", "/">>
DiscordCom == <<"d", "i", "s", "c", "o", "r", "d", ".", "c", "o", "m", "/">>
LinkedinCom == <<"l", "i", "n", "k", "e", "d", "i", "n", ".", "c", "o", "m", "/">>
TMe == <<"t", ".", "m", "e", "/">>

\* ' | Whop', 'Product', 'whop.com/@', 'https://whop.com/'
TitleSuffix == <<" ", "|", " ", "W", "h", "o", "p">>
ProductType == <<"P", "r", "o", "d", "u", "c", "t">>
WhopComAt == <<"w", "h", "o", "p", ".", "c", "o", "m", "/", "@">>
WhopSlash == WhopOrigin \o <<"/">>

\* the seven social fields of a record, in the order of the else-if chain
SocialKeys == <<"twitter", "instagram", "youtube", "tiktok", "discord", "linkedin", "telegram">>

\* const isWhopSocial = (url) => whopHandles.some(h => lower.includes(...))
IsWhopSocialCaseSensitive(url) ==
    \E i \in 1..Len(WHOP_HANDLES) :
        \/ Includes(url, <<"/">> \o WHOP_HANDLES[i])
        \/ Includes(url, <<"@">> \o WHOP_HANDLES[i])

IsWhopSocial(url) ==
    LET lower == ToLowerCase(url) IN
    \E i \in 1..Len(WHOP_HANDLES) :
        \/ Includes(lower, <<"/">> \o WHOP_HANDLES[i])
        \/ Includes(lower, <<"@">> \o WHOP_HANDLES[i])

\* const socials = { twitter: '', ..., telegram: '' }
EmptySocials ==
    [twitter |-> EmptyStr, instagram |-> EmptyStr, youtube |-> EmptyStr,
     tiktok |-> EmptyStr, discord |-> EmptyStr, linkedin |-> EmptyStr,
     telegram |-> EmptyStr]

\* const result = { productName: '', ..., telegram: '' }
EmptyResult ==
    [productName |-> EmptyStr, creatorName |-> EmptyStr, creatorHandle |-> EmptyStr,
     twitter |-> EmptyStr, instagram |-> EmptyStr, youtube |-> EmptyStr,
     tiktok |-> EmptyStr, discord |-> EmptyStr, linkedin |-> EmptyStr,
     telegram |-> EmptyStr]

\* the else-if chain of the product-page scan, for one anchor
ClassifyProductLink(href, r) ==
    LET lowerHref == ToLowerCase(href) IN
    IF (Includes(lowerHref, TwitterCom) \/ Includes(lowerHref, XCom)) /\ r.twitter = EmptyStr
    THEN [r EXCEPT !.twitter = href]
    ELSE IF Includes(lowerHref, InstagramCom) /\ r.instagram = EmptyStr
    THEN [r EXCEPT !.instagram = href]
    ELSE IF Includes(lowerHref, YoutubeCom) /\ r.youtube = EmptyStr
    THEN [r EXCEPT !.youtube = href]
    ELSE IF Includes(lowerHref, TiktokCom) /\ r.tiktok = EmptyStr
    THEN [r EXCEPT !.tiktok = href]
    ELSE IF Includes(lowerHref, DiscordGg) \/ Includes(lowerHref, DiscordCom)
    THEN (IF r.discord = EmptyStr THEN [r EXCEPT !.discord = href] ELSE r)
    ELSE IF Includes(lowerHref, LinkedinCom) /\ r.linkedin = EmptyStr
    THEN [r EXCEPT !.linkedin = href]
    ELSE IF Includes(lowerHref, TMe) /\ r.telegram = EmptyStr
    THEN [r EXCEPT !.telegram = href]
    ELSE r

\* the else-if chain of the profile-page scan, for one anchor
ClassifyProfileLink(href, r) ==
    LET lowerHref == ToLowerCase(href) IN
    IF (Includes(lowerHref, TwitterCom) \/ Includes(lowerHref, XCom)) /\ r.twitter = EmptyStr
    THEN [r EXCEPT !.twitter = href]
    ELSE IF Includes(lowerHref, InstagramCom) /\ r.instagram = EmptyStr
    THEN [r EXCEPT !.instagram = href]
    ELSE IF Includes(lowerHref, YoutubeCom) /\ r.youtube = EmptyStr
    THEN [r EXCEPT !.youtube = href]
    ELSE IF Includes(lowerHref, TiktokCom) /\ r.tiktok = EmptyStr
    THEN [r EXCEPT !.tiktok = href]
    ELSE IF (Includes(lowerHref, DiscordGg) \/ Includes(lowerHref, DiscordCom)) /\ r.discord = EmptyStr
    THEN [r EXCEPT !.discord = href]
    ELSE IF Includes(lowerHref, LinkedinCom) /\ r.linkedin = EmptyStr
    THEN [r EXCEPT !.linkedin = href]
    ELSE IF Includes(lowerHref, TMe) /\ r.telegram = EmptyStr
    THEN [r EXCEPT !.telegram = href]
    ELSE r

\* for (const link of allLinks) on the product page
RECURSIVE ScanProductLinks(_, _)
ScanProductLinks(anchors, r) ==
    IF anchors = <<>> THEN r
    ELSE LET href == Head(anchors) IN
         ScanProductLinks(Tail(anchors),
                          IF IsWhopSocial(href) THEN r ELSE ClassifyProductLink(href, r))

\* for (const link of allLinks) on the profile page
RECURSIVE ScanProfileLinks(_, _)
ScanProfileLinks(anchors, r) ==
    IF anchors = <<>> THEN r
    ELSE LET href == Head(anchors) IN
         ScanProfileLinks(Tail(anchors),
                          IF IsWhopSocial(href) THEN r ELSE ClassifyProfileLink(href, r))

\* the longest prefix of s made of [a-zA-Z0-9_]
RECURSIVE TakeWord(_)
TakeWord(s) ==
    IF s # <<>> /\ IsWordChar(Head(s)) THEN <<Head(s)>> \o TakeWord(Tail(s)) ELSE <<>>

\* href.match(/whop\.com\/@([a-zA-Z0-9_]+)/): the captured group of the
\* leftmost match, EmptyStr when there is none
RECURSIVE HandleMatch(_)
HandleMatch(s) ==
    IF Len(s) <= Len(WhopComAt) THEN EmptyStr
    ELSE IF StartsWith(s, WhopComAt) /\ IsWordChar(s[Len(WhopComAt) + 1])
    THEN TakeWord(SubSeq(s, Len(WhopComAt) + 1, Len(s)))
    ELSE HandleMatch(Tail(s))

\* for (const link of profileLinks): the first handle that is not a house
\* account, with its '@'
RECURSIVE CreatorHandle(_)
CreatorHandle(anchors) ==
    IF anchors = <<>> THEN EmptyStr
    ELSE LET href == Head(anchors)
             match == HandleMatch(href)
         IN IF /\ Includes(href, WhopComAt)
               /\ match # EmptyStr
               /\ \A i \in 1..Len(WHOP_HANDLES) : WHOP_HANDLES[i] # ToLowerCase(match)
            THEN <<"@">> \o match
            ELSE CreatorHandle(Tail(anchors))

\* for (const script of jsonLdScripts): the brand name the loop leaves in
\* result.creatorName; a block that does not parse, or parses to null,
\* throws inside the try and is skipped
RECURSIVE CreatorName(_, _)
CreatorName(blocks, name) ==
    IF blocks = <<>> THEN name
    ELSE LET b == Head(blocks) IN
         CreatorName(Tail(blocks),
                     IF b.parsed = "object" /\ b.type = ProductType /\ b.brandName # EmptyStr
                     THEN b.brandName ELSE name)

\* h1 text, trimmed, or else the title without ' | Whop', trimmed
ProductName(p) ==
    LET h == IF p.h1 = <<>> THEN EmptyStr ELSE Trim(Head(p.h1)) IN
    IF h # EmptyStr THEN h ELSE Trim(RemoveFirst(p.title, TitleSuffix))

\* the function evaluated in the product page
EvaluateProduct(p) ==
    ScanProductLinks(p.anchors,
        [EmptyResult EXCEPT !.productName = ProductName(p),
                            !.creatorName = CreatorName(p.jsonLd, EmptyStr),
                            !.creatorHandle = CreatorHandle(p.anchors)])

\* the function evaluated in the profile page
EvaluateProfile(q) == ScanProfileLinks(q.anchors, EmptySocials)

\* if (!data.twitter && !data.instagram && data.creatorHandle)
NeedsProfile(data) ==
    /\ data.twitter = EmptyStr
    /\ data.instagram = EmptyStr
    /\ data.creatorHandle # EmptyStr

\* `https://whop.com/${data.creatorHandle.replace('@', '@')}`
ProfileUrl(data) == WhopSlash \o data.creatorHandle

\* one key of Object.keys(profileData).forEach
MergeKeyOverwrite(data, profileData, key) ==
    IF profileData[key] # EmptyStr
    THEN [data EXCEPT ![key] = profileData[key]] ELSE data

MergeKey(data, profileData, key) ==
    IF profileData[key] # EmptyStr /\ data[key] = EmptyStr
    THEN [data EXCEPT ![key] = profileData[key]] ELSE data

\* Object.keys(profileData).forEach(key => ...)
RECURSIVE MergeKeys(_, _, _)
MergeKeys(data, profileData, keys) ==
    IF keys = <<>> THEN data
    ELSE MergeKeys(MergeKey(data, profileData, Head(keys)), profileData, Tail(keys))

MergeProfile(data, profileData) == MergeKeys(data, profileData, SocialKeys)

\* catch (e) { } of the profile fallback: continue with what we have
ProfileCatchClears(data) ==
    [k \in DOMAIN data |-> IF k \in Range(SocialKeys) THEN EmptyStr ELSE data[k]]

ProfileCatch(data) == data

\* return { productUrl, ...data }
WithUrl(productUrl, data) ==
    [productUrl |-> productUrl, productName |-> data.productName,
     creatorName |-> data.creatorName, creatorHandle |-> data.creatorHandle,
     twitter |-> data.twitter, instagram |-> data.instagram,
     youtube |-> data.youtube, tiktok |-> data.tiktok, discord |-> data.discord,
     linkedin |-> data.linkedin, telegram |-> data.telegram]

\* the record the outer catch returns
FailedRecordNoUrl(productUrl) == WithUrl(EmptyStr, EmptyResult)

FailedRecord(productUrl) == WithUrl(productUrl, EmptyResult)

(**************************************************************************)
(* The aggregator of runScraper                                           *)
(**************************************************************************)

\* results.filter(r => r[key]).length
CountWith(results, key) ==
    Cardinality({k \in 1..Len(results) : results[k][key] # EmptyStr})

\* const currentStats = {...} and const stats = {...}
Stats(results) ==
    [total |-> Len(results),
     withTwitter |-> CountWith(results, "twitter"),
     withInstagram |-> CountWith(results, "instagram"),
     withYouTube |-> CountWith(results, "youtube"),
     withTikTok |-> CountWith(results, "tiktok"),
     withDiscord |-> CountWith(results, "discord"),
     withLinkedIn |-> CountWith(results, "linkedin"),
     withTelegram |-> CountWith(results, "telegram")]

\* the stats literal of the return for an empty discovery
ZeroStats ==
    [total |-> 0, withTwitter |-> 0, withInstagram |-> 0, withYouTube |-> 0,
     withTikTok |-> 0, withDiscord |-> 0, withLinkedIn |-> 0, withTelegram |-> 0]

\* the argument of onProgress for the item at index i (from 0)
ProgressEventZeroBased(productData, i, n, currentStats) ==
    [product |-> productData, current |-> i, total |-> n, stats |-> currentStats]

ProgressEvent(productData, i, n, currentStats) ==
    [product |-> productData, current |-> i + 1, total |-> n, stats |-> currentStats]

\* results.push(productData)
PushFront(results, productData) == <<productData>> \o results

Push(results, productData) == Append(results, productData)

(**************************************************************************)
(* The serializer: exportToCSV                                            *)
(**************************************************************************)

\* a value that is not a string: the number 42 of "brand": {"name": 42}
NumberValue == <<"42">>

\* the value undefined: a property that is missing
Undefined == <<"undefined">>

\* typeof v === 'string'
IsString(v) == v \notin {NumberValue, Undefined}

\* !v is false
Truthy(v) == v \notin {EmptyStr, Undefined}

\* const headers = [...]
Headers ==
    <<<<"P", "r", "o", "d", "u", "c", "t", " ", "N", "a", "m", "e">>,
       <<"P", "r", "o", "d", "u", "c", "t", " ", "U", "R", "L">>,
       <<"C", "r", "e", "a", "t", "o", "r", " ", "N", "a", "m", "e">>,
       <<"C", "r", "e", "a", "t", "o", "r", " ", "H", "a", "n", "d", "l", "e">>,
       <<"T", "w", "i", "t", "t", "e", "r", "/", "X">>,
       <<"I", "n", "s", "t", "a", "g", "r", "a", "m">>,
       <<"Y", "o", "u", "T", "u", "b", "e">>,
       <<"T", "i", "k", "T", "o", "k">>,
       <<"D", "i", "s", "c", "o", "r", "d">>,
       <<"L", "i", "n", "k", "e", "d", "I", "n">>,
       <<"T", "e", "l", "e", "g", "r", "a", "m">>>>

\* the fields of a record in the order of the columns
Columns ==
    <<"productName", "productUrl", "creatorName", "creatorHandle", "twitter",
      "instagram", "youtube", "tiktok", "discord", "linkedin", "telegram">>

\* Array.prototype.join
RECURSIVE Join(_, _)
Join(parts, sep) ==
    IF parts = <<>> THEN EmptyStr
    ELSE IF Len(parts) = 1 THEN Head(parts)
    ELSE Head(parts) \o sep \o Join(Tail(parts), sep)

\* str.replace(/"/g, '""')
RECURSIVE DoubleQuotes(_)
DoubleQuotes(str) ==
    IF str = <<>> THEN <<>>
    ELSE IF Head(str) = "\"" THEN <<"\"", "\"">> \o DoubleQuotes(Tail(str))
    ELSE <<Head(str)>> \o DoubleQuotes(Tail(str))

\* an escapeCSV that encloses the field and leaves its quotes single
EscapeCSVNoDoubling(str) ==
    IF str = EmptyStr THEN EmptyStr
    ELSE IF \/ Includes(str, <<",">>)
            \/ Includes(str, <<"\"">>)
            \/ Includes(str, <<"\n">>)
         THEN <<"\"">> \o str \o <<"\"">>
         ELSE str

\* escapeCSV, for a string
EscapeCSV(str) ==
    IF str = EmptyStr THEN EmptyStr
    ELSE IF \/ Includes(str, <<",">>)
            \/ Includes(str, <<"\"">>)
            \/ Includes(str, <<"\n">>)
         THEN <<"\"">> \o DoubleQuotes(str) \o <<"\"">>
         ELSE str

\* escapeCSV throws: a truthy value without a method includes
EscapeThrows(v) == Truthy(v) /\ ~IsString(v)

\* results.map(r => [escapeCSV(r.productName), ...].join(','))
Row(r) == Join([k \in 1..Len(Columns) |-> EscapeCSV(r[Columns[k]])], <<",">>)

\* exportToCSV throws: some field of some record makes escapeCSV throw
ExportThrows(results) ==
    \E i \in 1..Len(results) : \E k \in 1..Len(Columns) :
        EscapeThrows(results[i][Columns[k]])

\* a table without the header line
ExportRowsOnly(results) ==
    Join([i \in 1..Len(results) |-> Row(results[i])], <<"\n">>)

\* return [headers.join(','), ...rows].join('\n')
ExportToCSV(results) ==
    Join(<<Join(Headers, <<",">>)>> \o [i \in 1..Len(results) |-> Row(results[i])],
         <<"\n">>)

\* csv: exportToCSV([])
HeaderOnly == ExportToCSV(<<>>)

\* A reader of comma-separated text as RFC 4180 describes it: a field that
\* begins with a quote runs to its closing quote, and a doubled quote inside
\* it is one quote; a comma or a line break outside quotes, that is one
\* with an even number of quotes before it, ends a field or a record.
IsSeparator(text, i, c) ==
    /\ text[i] = c
    /\ Cardinality({j \in 1..(i - 1) : text[j] = "\""}) % 2 = 0

\* the pieces of text between the separators c
SplitOutsideQuotes(text, c) ==
    LET seps == {i \in 1..Len(text) : IsSeparator(text, i, c)}
        nth(k) == IF k = 0 THEN 0
                  ELSE IF k > Cardinality(seps) THEN Len(text) + 1
                  ELSE CHOOSE i \in seps : Cardinality({j \in seps : j < i}) = k - 1
    IN  [k \in 1..(Cardinality(seps) + 1) |-> SubSeq(text, nth(k - 1) + 1, nth(k) - 1)]

\* the inside of an enclosed field: "" stands for "
RECURSIVE Undouble(_)
Undouble(str) ==
    IF str = <<>> THEN <<>>
    ELSE IF Len(str) >= 2 /\ str[1] = "\"" /\ str[2] = "\""
         THEN <<"\"">> \o Undouble(SubSeq(str, 3, Len(str)))
         ELSE <<Head(str)>> \o Undouble(Tail(str))

\* the value of one field token
Unquote(token) ==
    IF Len(token) >= 2 /\ Head(token) = "\"" /\ token[Len(token)] = "\""
    THEN Undouble(SubSeq(token, 2, Len(token) - 1))
    ELSE token

\* the records a standard reader finds in a table
ReadCSV(text) ==
    LET lines == SplitOutsideQuotes(text, "\n")
    IN  [r \in 1..Len(lines) |->
            LET tokens == SplitOutsideQuotes(lines[r], ",")
            IN  [f \in 1..Len(tokens) |-> Unquote(tokens[f])]]

(**************************************************************************)
(* The simulated product and profile pages                                *)
(**************************************************************************)

HrefProfileBob == WhopOrigin \o <<"/", "@", "B", "o", "b">>
HrefProfileWhop == WhopOrigin \o <<"/", "@", "w", "h", "o", "p">>
HrefXA == <<"x", ".", "c", "o", "m", "/", "a">>
HrefTwitterB == <<"t", "w", "i", "t", "t", "e", "r", ".", "c", "o", "m", "/", "b">>
HrefXHouse == <<"x", ".", "c", "o", "m", "/", "w", "h", "o", "p">>
HrefXHouseUpper == <<"X", ".", "c", "o", "m", "/", "W", "h", "o", "p", "H", "Q">>
HrefInstagramA == <<"i", "n", "s", "t", "a", "g", "r", "a", "m", ".", "c", "o", "m", "/", "a">>
HrefYoutubeA == <<"y", "o", "u", "t", "u", "b", "e", ".", "c", "o", "m", "/", "a">>
HrefYoutubeB == <<"y", "o", "u", "t", "u", "b", "e", ".", "c", "o", "m", "/", "b">>
HrefTiktokA == <<"t", "i", "k", "t", "o", "k", ".", "c", "o", "m", "/", "a">>
HrefDiscordA == <<"d", "i", "s", "c", "o", "r", "d", ".", "g", "g", "/", "a">>
HrefLinkedinA == <<"l", "i", "n", "k", "e", "d", "i", "n", ".", "c", "o", "m", "/", "a">>
HrefTelegramA == <<"t", ".", "m", "e", "/", "a">>
HrefTelegramHouse == <<"t", ".", "m", "e", "/", "@", "w", "h", "o", "p", "_", "i", "o">>
\* a video-platform redirect whose target is a chat invite
HrefRedirect == <<"y", "o", "u", "t", "u", "b", "e", ".", "c", "o", "m", "/", "r", "?", "q", "=", "d", "i", "s", "c", "o", "r", "d", ".", "g", "g", "/", "a">>

BlockMalformed == [parsed |-> "error", type |-> EmptyStr, brandName |-> EmptyStr]
BlockNull == [parsed |-> "null", type |-> EmptyStr, brandName |-> EmptyStr]
BlockProductA == [parsed |-> "object", type |-> ProductType, brandName |-> <<"A">>]
BlockProductB == [parsed |-> "object", type |-> ProductType, brandName |-> <<"B">>]
BlockProductNoBrand == [parsed |-> "object", type |-> ProductType, brandName |-> EmptyStr]
BlockOrganization == [parsed |-> "object", type |-> <<"O", "r", "g", "a", "n", "i", "z", "a", "t", "i", "o", "n">>, brandName |-> <<"C">>]

\* a block that parses to a value that is not an object: 5
BlockScalar == [parsed |-> "scalar", type |-> EmptyStr, brandName |-> EmptyStr]

\* {"@type": "Product", "brand": {"name": 42}}
BlockProductNumber == [parsed |-> "object", type |-> ProductType, brandName |-> NumberValue]

\* every category present, house links before the creator's
PageFull ==
    [h1 |-> << <<" ", "N", " ">> >>, title |-> <<"T", " ", "|", " ", "W", "h", "o", "p">>,
     jsonLd |-> <<BlockProductA>>,
     anchors |-> <<HrefProfileBob, HrefXHouse, HrefXA, HrefTwitterB, HrefInstagramA,
                   HrefYoutubeA, HrefTiktokA, HrefDiscordA, HrefLinkedinA,
                   HrefTelegramHouse, HrefTelegramA>>]

\* no h1, several structured-data blocks, a video link only
PageVideo ==
    [h1 |-> <<>>, title |-> <<"N", " ", "|", " ", "W", "h", "o", "p">>,
     jsonLd |-> <<BlockMalformed, BlockNull, BlockProductNoBrand, BlockProductA,
                  BlockOrganization, BlockProductB>>,
     anchors |-> <<HrefProfileWhop, HrefProfileBob, HrefYoutubeA>>]

\* the only anchor of a platform is the house account
PageHouse ==
    [h1 |-> << <<"N">> >>, title |-> <<"W", "h", "o", "p">>,
     jsonLd |-> <<>>,
     anchors |-> <<HrefProfileBob, HrefXHouseUpper>>]

\* a redirect link, no creator handle
PageRedirect ==
    [h1 |-> << <<" ">> >>, title |-> <<" ", "M", " ">>,
     jsonLd |-> <<BlockOrganization>>,
     anchors |-> <<HrefProfileWhop, HrefRedirect>>]

\* structured data that is unparseable, not an object, and a brand name
\* that is a number
PageNumberBrand ==
    [h1 |-> << <<"N">> >>, title |-> <<"W", "h", "o", "p">>,
     jsonLd |-> <<BlockMalformed, BlockScalar, BlockProductNumber>>,
     anchors |-> <<HrefXA>>]

ProductPages == {PageFull, PageVideo, PageHouse, PageRedirect, PageNumberBrand}

ProfileSocials == [anchors |-> <<HrefXHouse, HrefTwitterB, HrefYoutubeB, HrefTelegramA>>]
ProfileHouse == [anchors |-> <<HrefXHouseUpper, HrefTelegramHouse>>]
ProfileEmpty == [anchors |-> <<>>]

ProfilePages == {ProfileSocials, ProfileHouse, ProfileEmpty}

\* the results of the two page functions, computed once per simulated page
EvaluateProductOf == [p \in ProductPages |-> EvaluateProduct(p)] @@ <<>>
EvaluateProfileOf == [q \in ProfilePages |-> EvaluateProfile(q)] @@ <<>>

\* the largest number of URLs the discovery phase hands to the item loop
MaxUrls == 2

\* the k-th discovered product URL
UrlOf(k) == WhopOrigin \o SlashDiscoverSlash \o <<"p", "/">> \o <<Digits[k + 1]>>

\* the lists the discovery phase can return: distinct URLs in any order
UrlLists ==
    {l \in UNION {[1..n -> {UrlOf(k) : k \in 1..MaxUrls}] : n \in 0..MaxUrls} :
        \A a, b \in 1..Len(l) : a # b => l[a] # l[b]}

(**************************************************************************)
(* State of one run of scrapeSearchResults                                *)
(**************************************************************************)

VARIABLES
    cpc,                      \* canonicaliser harness: "input", "once" or "twice"
    cHref,                    \* canonicaliser harness: the href under test
    cOut,                     \* canonicaliser harness: ExtractHref(cHref)
    cOut2,                    \* canonicaliser harness: ExtractHref(cOut)
    sizeAtEnter,              \* history: products.size when the iteration began
    emptyIters,               \* history: consecutive iterations that added no URL
    pc,                       \* the statement scrapeSearchResults is at
    feed,                     \* the anchors the site serves for this query
    doc,                      \* the anchors of the live document
    observing,                \* window.mutationObserverActive
    detected,                 \* window.detectedProducts
    products,                 \* let products = new Set()
    maxProducts,              \* parameter maxProducts
    cfgMaxScrollAttempts,     \* parameter maxScrollAttempts (CONFIG.maxScrollAttempts)
    previousProductCount,
    scrollAttempts,
    noNewContentCount,
    currentProductCountInDOM,
    waits,                    \* outcomes of the waits of the current iteration
    exit,                     \* the branch that left the scroll loop
    nMove,                    \* page.mouse.move calls issued
    nWheel,                   \* page.mouse.wheel calls issued
    nScrollTo,                \* window.scrollTo instructions issued
    productArray              \* the returned list

\* state of the item loop of runScraper and of scrapeProductPage
VARIABLES
    ipc,                      \* the statement the item loop is at
    productUrls,              \* the list returned by the discovery phase
    onProgress,               \* TRUE when the caller passed a progress callback
    idx,                      \* let i
    results,                  \* const results = []
    events,                   \* the arguments the progress callback was called with
    stats,                    \* the stats of the returned object
    gotos,                    \* the URLs page.goto was called with for this item
    productDoc,               \* the product page the site served, if any
    profileDoc,               \* the profile page the site served, if any
    data,                     \* const data of scrapeProductPage
    pageData,                 \* history: data as evaluated on the product page
    outcome,                  \* history: how scrapeProductPage ended for this item
    productData               \* the record scrapeProductPage returned

\* state of runScraper around the item loop
VARIABLES
    navigated,                \* history: every URL page.goto was called with in the item loop
    csv,                      \* const csv = exportToCSV(results)
    failed,                   \* the call whose failure left the try block, if any
    settled,                  \* the promise runScraper returned: pending, resolved, rejected
    browser,                  \* the browser: none, open, closed
    spos                      \* the awaited call runScraper is at before the item loop

\* the reader harness of the serializer
VARIABLES
    xpc,                      \* "idle", "input", "exported" or "read"
    xRecord,                  \* the record under test
    xCsv,                     \* exportToCSV([xRecord])
    xRows                     \* the records a standard reader finds in xCsv

\* state of the handler of POST /api/scrape
VARIABLES
    spc,                      \* the statement the handler is at
    reqQuery,                 \* req.body.searchQuery
    reqMax,                   \* req.body.maxProducts
    status,                   \* the status code of the response, 0 before one is set
    sse,                      \* the events written to the response, in order
    started,                  \* the arguments runScraper was called with, if it was
    pushed,                   \* the handler's results array: the products of the progress calls
    saved,                    \* the outcome of the save attempt: "none", "ok" or "failed"
    body                      \* the data of the complete event, once written

\* the start of the server: startServer
VARIABLES
    ppc,                      \* where the start is: "call", "listen", "listening" or "exited"
    BASE_PORT,                \* process.env.PORT || 3000
    port,                     \* the port argument of the current call of startServer
    attempt,                  \* the attempt argument of the current call
    ports,                    \* the port numbers app.listen was given, in order
    exitCode                  \* the exit code of the process, 0 while it runs

itemVars == <<ipc, productUrls, onProgress, idx, results, events, stats, gotos,
              productDoc, profileDoc, data, pageData, outcome, productData,
              navigated, csv, failed>>

sessionVars == <<settled, browser, spos>>
readerVars == <<xpc, xRecord, xCsv, xRows>>
requestVars == <<spc, reqQuery, reqMax, status, sse, started, pushed, saved, body>>
portVars == <<ppc, BASE_PORT, port, attempt, ports, exitCode>>
serverVars == <<requestVars, portVars>>

\* the state outside the crawl
outerVars == <<sessionVars, readerVars, serverVars>>

vars == <<cpc, cHref, cOut, cOut2, sizeAtEnter, emptyIters, pc, feed, doc, observing, detected, products, maxProducts, cfgMaxScrollAttempts,
          previousProductCount, scrollAttempts, noNewContentCount,
          currentProductCountInDOM, waits, exit, nMove, nWheel, nScrollTo, productArray,
          itemVars, outerVars>>

\* no call has failed
NoFailure == [call |-> "none", kind |-> "none", guarded |-> FALSE, line |-> 0]

\* runScraper was not called
NoCall == [searchQuery |-> EmptyStr, maxProducts |-> 0, headless |-> FALSE]

\* no complete event was written
NoBody == [results |-> <<>>, stats |-> ZeroStats, csv |-> EmptyStr]

\* a JavaScript number and a JavaScript string
Num(n) == [type |-> "number", n |-> n, s |-> EmptyStr]
Str(s) == [type |-> "string", n |-> 0, s |-> s]

\* runScraper was not called
SessionIdle ==
    /\ settled = "pending"
    /\ browser = "none"
    /\ spos = 0

\* the reader harness is not in use
ReaderIdle ==
    /\ xpc = "idle"
    /\ xRecord = FailedRecord(EmptyStr)
    /\ xCsv = EmptyStr
    /\ xRows = <<>>

\* startServer is not under test
PortsIdle ==
    /\ ppc = "idle"
    /\ BASE_PORT = Num(0)
    /\ port = Num(0)
    /\ attempt = 0
    /\ ports = <<>>
    /\ exitCode = 0

\* no request was received
ServerIdle ==
    /\ PortsIdle
    /\ spc = "idle"
    /\ reqQuery = EmptyStr
    /\ reqMax = EmptyStr
    /\ status = 0
    /\ sse = <<>>
    /\ started = NoCall
    /\ pushed = <<>>
    /\ saved = "none"
    /\ body = NoBody

OuterIdle == SessionIdle /\ ReaderIdle /\ ServerIdle

\* the item loop has not been entered
ItemsIdle ==
    /\ ipc = "idle"
    /\ productUrls = <<>>
    /\ onProgress = FALSE
    /\ idx = 0
    /\ results = <<>>
    /\ events = <<>>
    /\ stats = ZeroStats
    /\ gotos = <<>>
    /\ productDoc = <<>>
    /\ profileDoc = <<>>
    /\ data = EmptyResult
    /\ pageData = EmptyResult
    /\ outcome = "none"
    /\ productData = FailedRecord(EmptyStr)
    /\ navigated = <<>>
    /\ csv = EmptyStr
    /\ failed = NoFailure

canonVars == <<cpc, cHref, cOut, cOut2>>
historyVars == <<sizeAtEnter, emptyIters>>
loopVars == <<previousProductCount, scrollAttempts, noNewContentCount,
              currentProductCountInDOM>>
inputVars == <<feed, maxProducts, cfgMaxScrollAttempts>>
pageVars == <<doc, observing, detected>>
issuedVars == <<nMove, nWheel, nScrollTo>>

\* the statements during which the page may attach content: the navigation
\* (before the observer exists), the settle delay before the initial scan,
\* the waits of an iteration, and the final settle wait.  Content attached at
\* any other await is seen by the same next extraction pass.
DocAddPcs == {"goto", "scan", "waitFunction", "finalWait"}

\* while (scrollAttempts < maxScrollAttempts)
LoopContinues(attempts) == attempts < LoopMaxScrollAttempts

\* a target check that is off by one: products.size > maxProducts
ReachedTargetStrict(size, target) == size > target

\* products.size >= maxProducts, at the top of the loop and after an extraction
ReachedTarget(size, target) == size >= target

\* a convergence check that is off by one: noNewContentCount > tolerance
ConvergedCheckStrict(count, tolerance) == count > tolerance

\* noNewContentCount >= maxAttemptsWithoutNewContent
ConvergedCheck(count, tolerance) == count >= tolerance

\* a merge that replaces the set by the latest pass: products = new Set(urls)
ReplaceWith(prods, urls) == AddAll(<<>>, urls)

\* urls.forEach(url => products.add(url))
MergeInto(prods, urls) == AddAll(prods, urls)

\* a predicate wait without a timeout: it settles only once the predicate is true
PredicateWaitUnbounded(satisfied) == satisfied

\* waitForFunction has a timeout and its rejection is caught: the wait
\* settles whether or not the predicate became true
PredicateWaitSettles(satisfied) == TRUE

\* const maxAttemptsWithoutNewContent = currentProductCount < maxProducts ? 5 : 3
MaxAttemptsWithoutNewContent(count, target) ==
    IF count < target THEN ToleranceBelowTarget ELSE ToleranceAtTarget

\* a wait whose rejection is not caught: only a resolved wait lets the iteration go on
WaitUncaught(resolved) == resolved

\* try { await <wait> } catch (e) { <log> }: the iteration goes on either way
WaitCaught(resolved) == TRUE

Init ==
    /\ cpc = "idle"
    /\ cHref = NoUrl
    /\ cOut = NoUrl
    /\ cOut2 = NoUrl
    /\ sizeAtEnter = 0
    /\ emptyIters = 0
    /\ pc = "goto"
    /\ feed \in Feeds
    /\ doc = <<>>
    /\ observing = FALSE
    /\ detected = <<>>
    /\ products = <<>>
    /\ maxProducts \in {1, 2, MaxTarget}
    /\ cfgMaxScrollAttempts \in {CallerMaxScrollAttempts, DefaultMaxScrollAttempts}
    /\ previousProductCount = 0
    /\ scrollAttempts = 0
    /\ noNewContentCount = 0
    /\ currentProductCountInDOM = 0
    /\ waits = <<>>
    /\ exit = "none"
    /\ nMove = 0
    /\ nWheel = 0
    /\ nScrollTo = 0
    /\ productArray = <<>>
    /\ ItemsIdle
    /\ OuterIdle

(**************************************************************************)
(* The page (environment)                                                 *)
(**************************************************************************)

\* the page attaches one more anchor; the observer, when installed, sees it
DocAdd ==
    /\ UNCHANGED <<canonVars, historyVars, itemVars, outerVars>>
    /\ pc \in DocAddPcs
    /\ Len(doc) < MaxDoc
    /\ \E a \in feed :
        /\ a \notin Range(doc)
        /\ doc' = Append(doc, a)
        /\ detected' = IF observing THEN ObserverCallback(detected, a) ELSE detected
    /\ UNCHANGED <<pc, observing, products, inputVars, loopVars, waits, exit,
                   issuedVars, productArray>>

(**************************************************************************)
(* scrapeSearchResults                                                    *)
(**************************************************************************)

\* page.goto and the diagnostics that follow it
Navigate ==
    /\ UNCHANGED <<canonVars, historyVars, itemVars, outerVars>>
    /\ pc = "goto"
    /\ pc' = "observe"
    /\ UNCHANGED <<pageVars, products, inputVars, loopVars, waits, exit,
                   issuedVars, productArray>>

\* page.evaluate installing the MutationObserver
SetupObserver ==
    /\ UNCHANGED <<canonVars, historyVars, itemVars, outerVars>>
    /\ pc = "observe"
    /\ detected' = <<>>
    /\ observing' = TRUE
    /\ pc' = "scan"
    /\ UNCHANGED <<doc, products, inputVars, loopVars, waits, exit,
                   issuedVars, productArray>>

\* the initial extraction and the initialisation of the loop variables
InitialScan ==
    /\ UNCHANGED <<canonVars, historyVars, itemVars, outerVars>>
    /\ pc = "scan"
    /\ products' = MergeInto(products, InitialExtract(doc))
    /\ previousProductCount' = Len(products')
    /\ scrollAttempts' = 0
    /\ noNewContentCount' = 0
    /\ pc' = "loopTop"
    /\ UNCHANGED <<pageVars, inputVars, currentProductCountInDOM, waits, exit,
                   issuedVars, productArray>>

\* while (scrollAttempts < maxScrollAttempts) is false
LoopCapExit ==
    /\ UNCHANGED <<canonVars, historyVars, itemVars, outerVars>>
    /\ pc = "loopTop"
    /\ ~LoopContinues(scrollAttempts)
    /\ exit' = "cap"
    /\ pc' = "finalWait"
    /\ UNCHANGED <<pageVars, products, inputVars, loopVars, waits,
                   issuedVars, productArray>>

\* if (products.size >= maxProducts) break, at the top of the loop
LoopTargetExit ==
    /\ UNCHANGED <<canonVars, historyVars, itemVars, outerVars>>
    /\ pc = "loopTop"
    /\ LoopContinues(scrollAttempts)
    /\ ReachedTarget(Len(products), maxProducts)
    /\ exit' = "target"
    /\ pc' = "finalWait"
    /\ UNCHANGED <<pageVars, products, inputVars, loopVars, waits,
                   issuedVars, productArray>>

\* scrollAttempts++ and getProductCountFromDOM()
LoopEnter ==
    /\ UNCHANGED <<canonVars, itemVars, outerVars>>
    /\ pc = "loopTop"
    /\ LoopContinues(scrollAttempts)
    /\ ~ReachedTarget(Len(products), maxProducts)
    /\ scrollAttempts' = scrollAttempts + 1
    /\ sizeAtEnter' = Len(products)
    /\ emptyIters' = emptyIters
    /\ currentProductCountInDOM' = ProductCountInDOM(doc)
    /\ waits' = <<>>
    /\ pc' = "move"
    /\ UNCHANGED <<pageVars, products, inputVars, previousProductCount,
                   noNewContentCount, exit, issuedVars, productArray>>

\* page.mouse.move
MouseMove ==
    /\ UNCHANGED <<canonVars, historyVars, itemVars, outerVars>>
    /\ pc = "move"
    /\ nMove' = nMove + 1
    /\ pc' = "wheel"
    /\ UNCHANGED <<pageVars, products, inputVars, loopVars, waits, exit,
                   nWheel, nScrollTo, productArray>>

\* page.mouse.wheel
MouseWheel ==
    /\ UNCHANGED <<canonVars, historyVars, itemVars, outerVars>>
    /\ pc = "wheel"
    /\ nWheel' = nWheel + 1
    /\ pc' = "scrollTo"
    /\ UNCHANGED <<pageVars, products, inputVars, loopVars, waits, exit,
                   nMove, nScrollTo, productArray>>

\* window.scrollTo({top: document.body.scrollHeight}) inside the loop
ScrollToBottom ==
    /\ UNCHANGED <<canonVars, historyVars, itemVars, outerVars>>
    /\ pc = "scrollTo"
    /\ nScrollTo' = nScrollTo + 1
    /\ pc' = "waitResponse"
    /\ UNCHANGED <<pageVars, products, inputVars, loopVars, waits, exit,
                   nMove, nWheel, productArray>>

\* page.waitForResponse resolves (a response was seen) or rejects (timeout)
WaitForResponse ==
    /\ UNCHANGED <<canonVars, historyVars, itemVars, outerVars>>
    /\ pc = "waitResponse"
    /\ \E seen \in BOOLEAN :
        /\ waits' = Append(waits, seen)
        /\ pc' = IF WaitCaught(seen) THEN "waitFunction" ELSE "done"
    /\ UNCHANGED <<pageVars, products, inputVars, loopVars, exit,
                   issuedVars, productArray>>

\* page.waitForFunction resolves when the count exceeds the baseline, else times out
WaitForFunction ==
    /\ UNCHANGED <<canonVars, historyVars, itemVars, outerVars>>
    /\ pc = "waitFunction"
    /\ PredicateWaitSettles(ProductCountInDOM(doc) > currentProductCountInDOM)
    /\ waits' = Append(waits, ProductCountInDOM(doc) > currentProductCountInDOM)
    /\ pc' = IF WaitCaught(ProductCountInDOM(doc) > currentProductCountInDOM)
             THEN "waitIdle" ELSE "done"
    /\ UNCHANGED <<pageVars, products, inputVars, loopVars, exit,
                   issuedVars, productArray>>

\* page.waitForNetworkIdle resolves (idle) or rejects (timeout)
WaitForNetworkIdle ==
    /\ UNCHANGED <<canonVars, historyVars, itemVars, outerVars>>
    /\ pc = "waitIdle"
    /\ \E idle \in BOOLEAN :
        /\ waits' = Append(waits, idle)
        /\ pc' = IF WaitCaught(idle) THEN "extract" ELSE "done"
    /\ UNCHANGED <<pageVars, products, inputVars, loopVars, exit,
                   issuedVars, productArray>>

\* productsAfterScroll = await extractProducts(); forEach products.add
Extract ==
    /\ UNCHANGED <<canonVars, historyVars, itemVars, outerVars>>
    /\ pc = "extract"
    /\ products' = MergeInto(products, ExtractProducts(doc))
    /\ pc' = "merge"
    /\ UNCHANGED <<pageVars, inputVars, loopVars, waits, exit,
                   issuedVars, productArray>>

\* the merge of window.detectedProducts and the checks that end the iteration
Merge ==
    /\ UNCHANGED <<canonVars, itemVars, outerVars>>
    /\ pc = "merge"
    /\ products' = MergeMutation(products, detected)
    /\ LET currentProductCount == Len(products')
           newProducts == currentProductCount - previousProductCount
           maxAttemptsWithoutNewContent ==
               MaxAttemptsWithoutNewContent(currentProductCount, maxProducts)
       IN  IF ReachedTarget(currentProductCount, maxProducts)
           THEN /\ exit' = "target"
                /\ pc' = "finalWait"
                /\ UNCHANGED <<previousProductCount, noNewContentCount>>
           ELSE IF newProducts > 0
           THEN /\ previousProductCount' = currentProductCount
                /\ noNewContentCount' = 0
                /\ pc' = "loopTop"
                /\ exit' = exit
           ELSE /\ noNewContentCount' = noNewContentCount + 1
                /\ previousProductCount' = previousProductCount
                /\ IF ConvergedCheck(noNewContentCount', maxAttemptsWithoutNewContent)
                   THEN exit' = "converged" /\ pc' = "finalWait"
                   ELSE exit' = exit /\ pc' = "loopTop"
    /\ currentProductCountInDOM' = 0
    /\ waits' = <<>>
    /\ sizeAtEnter' = sizeAtEnter
    /\ emptyIters' = IF Len(products') > sizeAtEnter THEN 0 ELSE emptyIters + 1
    /\ UNCHANGED <<pageVars, inputVars, scrollAttempts, issuedVars, productArray>>

\* page.off and the final waitForNetworkIdle
FinalWait ==
    /\ UNCHANGED <<canonVars, historyVars, itemVars, outerVars>>
    /\ pc = "finalWait"
    /\ pc' = "finalScroll"
    /\ UNCHANGED <<pageVars, products, inputVars, loopVars, waits, exit,
                   issuedVars, productArray>>

\* window.scrollTo(0, document.body.scrollHeight) after the loop
FinalScroll ==
    /\ UNCHANGED <<canonVars, historyVars, itemVars, outerVars>>
    /\ pc = "finalScroll"
    /\ nScrollTo' = nScrollTo + 1
    /\ pc' = "finalExtract"
    /\ UNCHANGED <<pageVars, products, inputVars, loopVars, waits, exit,
                   nMove, nWheel, productArray>>

\* finalProducts = await extractProducts(); forEach products.add
FinalExtract ==
    /\ UNCHANGED <<canonVars, historyVars, itemVars, outerVars>>
    /\ pc = "finalExtract"
    /\ products' = MergeInto(products, ExtractProducts(doc))
    /\ pc' = "finalMerge"
    /\ UNCHANGED <<pageVars, inputVars, loopVars, waits, exit,
                   issuedVars, productArray>>

\* the final merge of window.detectedProducts
FinalMerge ==
    /\ UNCHANGED <<canonVars, historyVars, itemVars, outerVars>>
    /\ pc = "finalMerge"
    /\ products' = MergeMutation(products, detected)
    /\ pc' = "cleanup"
    /\ UNCHANGED <<pageVars, inputVars, loopVars, waits, exit,
                   issuedVars, productArray>>

\* a truncation that keeps the last n URLs: slice(-maxProducts)
SliceFromEnd(prods, n) == SubSeq(prods, Len(prods) - Min(Len(prods), n) + 1, Len(prods))

\* a return without the truncation: Array.from(products)
SliceNothing(prods, n) == prods

\* Array.from(products).slice(0, maxProducts)
SliceProducts(prods, n) == SubSeq(prods, 1, Min(Len(prods), n))

\* the observer is disconnected and the truncated list is returned
Cleanup ==
    /\ UNCHANGED <<canonVars, historyVars, itemVars, outerVars>>
    /\ pc = "cleanup"
    /\ observing' = FALSE
    /\ productArray' = SliceProducts(products, maxProducts)
    /\ pc' = "done"
    /\ UNCHANGED <<doc, detected, products, inputVars, loopVars, waits, exit,
                   issuedVars>>

\* the steps of scrapeSearchResults
Run ==
    \/ Navigate
    \/ SetupObserver
    \/ InitialScan
    \/ LoopCapExit
    \/ LoopTargetExit
    \/ LoopEnter
    \/ MouseMove
    \/ MouseWheel
    \/ ScrollToBottom
    \/ WaitForResponse
    \/ WaitForFunction
    \/ WaitForNetworkIdle
    \/ Extract
    \/ Merge
    \/ FinalWait
    \/ FinalScroll
    \/ FinalExtract
    \/ FinalMerge
    \/ Cleanup

Next ==
    \/ DocAdd
    \/ Run

Spec == Init /\ [][Next]_vars

\* every awaited page call and timer of the run settles, so the run goes on;
\* nothing obliges the page to attach content
FairSpec == Init /\ [][Next]_vars /\ WF_vars(Run)



(**************************************************************************)
(* Harness for the canonicalisation of extractProducts: one href is       *)
(* drawn, canonicalised, and its accepted output canonicalised again.     *)
(**************************************************************************)

CanonPrefixes ==
    { <<>>,
      WhopOrigin,
      SchemeHttp \o <<"w">>,
      <<"f", "t", "p", ":", "/", "/", "w">>,
      <<"x">> }

CanonPaths ==
    { PathAB,
      SlashDiscoverSlash \o <<"a">>,
      PathAB \o <<"/", "c">>,
      SlashDiscoverSearch \o <<"/", "b">>,
      SlashDiscoverSlash \o <<"a">> \o SlashSearch,
      SlashDiscoverSlash \o <<"a">> \o SlashSearch \o <<"b">>,
      <<"/", "x">> \o PathAB,
      SlashDiscoverSlash \o <<"/", "b">> }

CanonSuffixes ==
    { <<>>,
      <<"/">>,
      <<"/", "/">>,
      <<"?", "q">>,
      <<"#", "f">>,
      <<"/", "?", "q", "#", "f">>,
      <<"#", "f", "?", "q">>,
      <<"?", "q", "=", "/", "x", "/">> }

CanonInputs ==
    {p \o m \o x : p \in CanonPrefixes, m \in CanonPaths, x \in CanonSuffixes}

InitCanon ==
    /\ cpc = "input"
    /\ cHref \in CanonInputs
    /\ cOut = NoUrl
    /\ cOut2 = NoUrl
    /\ sizeAtEnter = 0
    /\ emptyIters = 0
    /\ pc = "idle"
    /\ feed = {}
    /\ doc = <<>>
    /\ observing = FALSE
    /\ detected = <<>>
    /\ products = <<>>
    /\ maxProducts = 1
    /\ cfgMaxScrollAttempts = DefaultMaxScrollAttempts
    /\ previousProductCount = 0
    /\ scrollAttempts = 0
    /\ noNewContentCount = 0
    /\ currentProductCountInDOM = 0
    /\ waits = <<>>
    /\ exit = "none"
    /\ nMove = 0
    /\ nWheel = 0
    /\ nScrollTo = 0
    /\ productArray = <<>>
    /\ ItemsIdle
    /\ OuterIdle

discoveryVars == <<sizeAtEnter, emptyIters, pc, feed, doc, observing, detected, products,
                   maxProducts, cfgMaxScrollAttempts, previousProductCount,
                   scrollAttempts, noNewContentCount, currentProductCountInDOM,
                   waits, exit, nMove, nWheel, nScrollTo, productArray>>

\* the extraction pass canonicalises the href of one anchor
CanonApply ==
    /\ cpc = "input"
    /\ cOut' = ExtractHref(cHref)
    /\ cpc' = "once"
    /\ UNCHANGED <<cHref, cOut2, discoveryVars, itemVars, outerVars>>

\* a later pass meets the canonical URL itself as an href
CanonReapply ==
    /\ cpc = "once"
    /\ cOut # NoUrl
    /\ cOut2' = ExtractHref(cOut)
    /\ cpc' = "twice"
    /\ UNCHANGED <<cHref, cOut, discoveryVars, itemVars, outerVars>>

NextCanon ==
    \/ CanonApply
    \/ CanonReapply

SpecCanon == InitCanon /\ [][NextCanon]_vars

(**************************************************************************)
(* The item loop of runScraper: one scrapeProductPage call per URL        *)
(**************************************************************************)

\* the canonicaliser harness and the discovery phase take no step here
OthersIdle ==
    /\ cpc = "idle"
    /\ cHref = NoUrl
    /\ cOut = NoUrl
    /\ cOut2 = NoUrl
    /\ sizeAtEnter = 0
    /\ emptyIters = 0
    /\ pc = "idle"
    /\ feed = {}
    /\ doc = <<>>
    /\ observing = FALSE
    /\ detected = <<>>
    /\ products = <<>>
    /\ maxProducts = 1
    /\ cfgMaxScrollAttempts = DefaultMaxScrollAttempts
    /\ previousProductCount = 0
    /\ scrollAttempts = 0
    /\ noNewContentCount = 0
    /\ currentProductCountInDOM = 0
    /\ waits = <<>>
    /\ exit = "none"
    /\ nMove = 0
    /\ nWheel = 0
    /\ nScrollTo = 0
    /\ productArray = <<>>

\* scrapeSearchResults has returned productUrls
InitItems ==
    /\ OthersIdle
    /\ OuterIdle
    /\ ipc = "start"
    /\ productUrls \in UrlLists
    /\ onProgress \in BOOLEAN
    /\ idx = 0
    /\ results = <<>>
    /\ events = <<>>
    /\ stats = ZeroStats
    /\ gotos = <<>>
    /\ productDoc = <<>>
    /\ profileDoc = <<>>
    /\ data = EmptyResult
    /\ pageData = EmptyResult
    /\ outcome = "none"
    /\ productData = FailedRecord(EmptyStr)
    /\ navigated = <<>>
    /\ csv = EmptyStr
    /\ failed = NoFailure

runVars == <<productUrls, onProgress, idx, results, events, stats>>

\* const url = productUrls[i]
Url == productUrls[idx + 1]

\* if (productUrls.length === 0) return { results: [], stats: {...0}, ... }
ZeroProducts ==
    /\ ipc = "start"
    /\ Len(productUrls) = 0
    /\ stats' = ZeroStats
    /\ csv' = HeaderOnly
    /\ ipc' = "done"
    /\ UNCHANGED <<canonVars, discoveryVars, outerVars, navigated, failed, productUrls, onProgress, idx, results,
                   events, gotos, productDoc, profileDoc, data, pageData, outcome,
                   productData>>

\* const results = []; the for loop is entered
StartLoop ==
    /\ ipc = "start"
    /\ Len(productUrls) # 0
    /\ results' = <<>>
    /\ idx' = 0
    /\ ipc' = "loop"
    /\ UNCHANGED <<canonVars, discoveryVars, outerVars, navigated, csv, failed, productUrls, onProgress, events, stats,
                   gotos, productDoc, profileDoc, data, pageData, outcome, productData>>

\* i < productUrls.length: scrapeProductPage(page, url) is called
CallScrapeProductPage ==
    /\ ipc = "loop"
    /\ idx < Len(productUrls)
    /\ gotos' = <<>>
    /\ productDoc' = <<>>
    /\ profileDoc' = <<>>
    /\ data' = EmptyResult
    /\ pageData' = EmptyResult
    /\ outcome' = "none"
    /\ ipc' = "goto"
    /\ UNCHANGED <<canonVars, discoveryVars, outerVars, navigated, csv, failed, runVars, productData>>

\* await page.goto(productUrl, ...) resolves: the site served a page
GotoProduct ==
    /\ ipc = "goto"
    /\ gotos' = Append(gotos, Url)
    /\ navigated' = Append(navigated, Url)
    /\ \E p \in ProductPages : productDoc' = <<p>>
    /\ ipc' = "evaluate"
    /\ UNCHANGED <<canonVars, discoveryVars, outerVars, csv, failed, runVars, profileDoc, data, pageData,
                   outcome, productData>>

\* await page.goto(productUrl, ...) rejects: the outer catch returns
GotoProductFails ==
    /\ ipc = "goto"
    /\ gotos' = Append(gotos, Url)
    /\ navigated' = Append(navigated, Url)
    /\ outcome' = "gotoFailed"
    /\ productData' = FailedRecord(Url)
    /\ ipc' = "returned"
    /\ UNCHANGED <<canonVars, discoveryVars, outerVars, csv, failed, runVars, productDoc, profileDoc, data,
                   pageData>>

\* const data = await page.evaluate(...) resolves
EvaluateProductPage ==
    /\ ipc = "evaluate"
    /\ data' = EvaluateProductOf[productDoc[1]]
    /\ pageData' = data'
    /\ ipc' = "fallback"
    /\ UNCHANGED <<canonVars, discoveryVars, outerVars, navigated, csv, failed, runVars, gotos, productDoc, profileDoc,
                   outcome, productData>>

\* await page.evaluate(...) rejects: the outer catch returns
EvaluateProductFails ==
    /\ ipc = "evaluate"
    /\ outcome' = "evaluateFailed"
    /\ productData' = FailedRecord(Url)
    /\ ipc' = "returned"
    /\ UNCHANGED <<canonVars, discoveryVars, outerVars, navigated, csv, failed, runVars, gotos, productDoc, profileDoc,
                   data, pageData>>

\* the fallback condition is false: return { productUrl, ...data }
NoFallback ==
    /\ ipc = "fallback"
    /\ ~NeedsProfile(data)
    /\ outcome' = "noFallback"
    /\ productData' = WithUrl(Url, data)
    /\ ipc' = "returned"
    /\ UNCHANGED <<canonVars, discoveryVars, outerVars, navigated, csv, failed, runVars, gotos, productDoc, profileDoc,
                   data, pageData>>

\* await page.goto(profileUrl, ...) resolves
GotoProfile ==
    /\ ipc = "fallback"
    /\ NeedsProfile(data)
    /\ gotos' = Append(gotos, ProfileUrl(data))
    /\ navigated' = Append(navigated, ProfileUrl(data))
    /\ \E q \in ProfilePages : profileDoc' = <<q>>
    /\ ipc' = "profileEvaluate"
    /\ UNCHANGED <<canonVars, discoveryVars, outerVars, csv, failed, runVars, productDoc, data, pageData,
                   outcome, productData>>

\* await page.goto(profileUrl, ...) rejects: the inner catch, then the return
GotoProfileFails ==
    /\ ipc = "fallback"
    /\ NeedsProfile(data)
    /\ gotos' = Append(gotos, ProfileUrl(data))
    /\ navigated' = Append(navigated, ProfileUrl(data))
    /\ outcome' = "profileGotoFailed"
    /\ data' = ProfileCatch(data)
    /\ productData' = WithUrl(Url, data')
    /\ ipc' = "returned"
    /\ UNCHANGED <<canonVars, discoveryVars, outerVars, csv, failed, runVars, productDoc, profileDoc, pageData>>

\* const profileData = await page.evaluate(...) resolves; merge; return
EvaluateProfilePage ==
    /\ ipc = "profileEvaluate"
    /\ outcome' = "merged"
    /\ data' = MergeProfile(data, EvaluateProfileOf[profileDoc[1]])
    /\ productData' = WithUrl(Url, data')
    /\ ipc' = "returned"
    /\ UNCHANGED <<canonVars, discoveryVars, outerVars, navigated, csv, failed, runVars, gotos, productDoc, profileDoc,
                   pageData>>

\* await page.evaluate(...) of the profile rejects: the inner catch, then the return
EvaluateProfileFails ==
    /\ ipc = "profileEvaluate"
    /\ outcome' = "profileEvaluateFailed"
    /\ data' = ProfileCatch(data)
    /\ productData' = WithUrl(Url, data')
    /\ ipc' = "returned"
    /\ UNCHANGED <<canonVars, discoveryVars, outerVars, navigated, csv, failed, runVars, gotos, productDoc, profileDoc,
                   pageData>>

\* a loop that does not advance
NextIndexStays(i) == i

\* for (let i = 0; i < productUrls.length; i++)
NextIndex(i) == i + 1

\* results.push(productData); currentStats; onProgress(...); the delay; i++
RecordItem ==
    /\ ipc = "returned"
    /\ results' = Push(results, productData)
    /\ events' = IF onProgress
                 THEN Append(events, ProgressEvent(productData, idx, Len(productUrls),
                                                   Stats(results')))
                 ELSE events
    /\ idx' = NextIndex(idx)
    /\ ipc' = "loop"
    /\ UNCHANGED <<canonVars, discoveryVars, outerVars, navigated, csv, failed, productUrls, onProgress, stats, gotos,
                   productDoc, profileDoc, data, pageData, outcome, productData>>

\* the loop ends: const csv = exportToCSV(results) returns the table
ExportResults ==
    /\ ipc = "loop"
    /\ ~(idx < Len(productUrls))
    /\ ~ExportThrows(results)
    /\ csv' = ExportToCSV(results)
    /\ ipc' = "write"
    /\ UNCHANGED <<canonVars, discoveryVars, outerVars, navigated, failed, productUrls,
                   onProgress, idx, results, events, stats, gotos, productDoc,
                   profileDoc, data, pageData, outcome, productData>>

\* the loop ends: exportToCSV(results) throws inside escapeCSV
ExportFails ==
    /\ ipc = "loop"
    /\ ~(idx < Len(productUrls))
    /\ ExportThrows(results)
    /\ failed' = [call |-> "exportToCSV", kind |-> "serialization",
                  guarded |-> FALSE, line |-> 1029]
    /\ ipc' = "threw"
    /\ UNCHANGED <<canonVars, discoveryVars, outerVars, navigated, csv, productUrls,
                   onProgress, idx, results, events, stats, gotos, productDoc,
                   profileDoc, data, pageData, outcome, productData>>

\* fs.writeFileSync(filename, csv) returns; const stats = {...};
\* return { results, stats, csv, filename }
ReturnResults ==
    /\ ipc = "write"
    /\ stats' = Stats(results)
    /\ ipc' = "done"
    /\ UNCHANGED <<canonVars, discoveryVars, outerVars, navigated, csv, failed,
                   productUrls, onProgress, idx, results, events, gotos, productDoc,
                   profileDoc, data, pageData, outcome, productData>>

\* fs.writeFileSync(filename, csv) throws
WriteFileFails ==
    /\ ipc = "write"
    /\ failed' = [call |-> "fs.writeFileSync", kind |-> "file",
                  guarded |-> FALSE, line |-> 1031]
    /\ ipc' = "threw"
    /\ UNCHANGED <<canonVars, discoveryVars, outerVars, navigated, csv, productUrls,
                   onProgress, idx, results, events, stats, gotos, productDoc,
                   profileDoc, data, pageData, outcome, productData>>

NextItems ==
    \/ ZeroProducts
    \/ StartLoop
    \/ CallScrapeProductPage
    \/ GotoProduct
    \/ GotoProductFails
    \/ EvaluateProductPage
    \/ EvaluateProductFails
    \/ NoFallback
    \/ GotoProfile
    \/ GotoProfileFails
    \/ EvaluateProfilePage
    \/ EvaluateProfileFails
    \/ RecordItem
    \/ ExportResults
    \/ ExportFails
    \/ ReturnResults
    \/ WriteFileFails

SpecItems == InitItems /\ [][NextItems]_vars

(**************************************************************************)
(* runScraper: the session, the discovery phase as the sequence of the    *)
(* calls it awaits, the item loop, and the finally block                  *)
(**************************************************************************)

\* the calls runScraper awaits before it calls scrapeSearchResults
SessionAwaits ==
    <<[call |-> "puppeteer.launch", kind |-> "session", guarded |-> FALSE, line |-> 864],
      [call |-> "browser.newPage", kind |-> "session", guarded |-> FALSE, line |-> 879],
      [call |-> "page.evaluateOnNewDocument", kind |-> "session", guarded |-> FALSE, line |-> 882],
      [call |-> "page.setViewport", kind |-> "session", guarded |-> FALSE, line |-> 931],
      [call |-> "page.setUserAgent", kind |-> "session", guarded |-> FALSE, line |-> 934],
      [call |-> "page.setExtraHTTPHeaders", kind |-> "session", guarded |-> FALSE, line |-> 939]>>

\* the calls scrapeSearchResults awaits, in program order; guarded: the call
\* is inside a try whose catch swallows the rejection
SearchAwaits ==
    <<[call |-> "page.goto", kind |-> "navigation", guarded |-> FALSE, line |-> 62],
      [call |-> "page.waitForSelector", kind |-> "wait", guarded |-> TRUE, line |-> 72],
      [call |-> "page.title", kind |-> "evaluation", guarded |-> FALSE, line |-> 79],
      [call |-> "page.content", kind |-> "evaluation", guarded |-> FALSE, line |-> 83],
      [call |-> "page.evaluate", kind |-> "evaluation", guarded |-> FALSE, line |-> 84],
      [call |-> "page.evaluate", kind |-> "evaluation", guarded |-> FALSE, line |-> 97],
      [call |-> "page.evaluate", kind |-> "evaluation", guarded |-> FALSE, line |-> 112],
      [call |-> "page.evaluate", kind |-> "evaluation", guarded |-> FALSE, line |-> 123],
      [call |-> "page.evaluate", kind |-> "evaluation", guarded |-> FALSE, line |-> 169],
      [call |-> "getProductCountFromDOM", kind |-> "evaluation", guarded |-> FALSE, line |-> 432],
      [call |-> "page.mouse.move", kind |-> "input", guarded |-> FALSE, line |-> 450],
      [call |-> "page.mouse.wheel", kind |-> "input", guarded |-> FALSE, line |-> 455],
      [call |-> "page.evaluate", kind |-> "evaluation", guarded |-> FALSE, line |-> 459],
      [call |-> "page.waitForResponse", kind |-> "wait", guarded |-> TRUE, line |-> 478],
      [call |-> "page.waitForFunction", kind |-> "wait", guarded |-> TRUE, line |-> 493],
      [call |-> "page.waitForNetworkIdle", kind |-> "wait", guarded |-> TRUE, line |-> 525],
      [call |-> "extractProducts", kind |-> "evaluation", guarded |-> FALSE, line |-> 531],
      [call |-> "page.evaluate", kind |-> "evaluation", guarded |-> FALSE, line |-> 535],
      [call |-> "page.waitForNetworkIdle", kind |-> "wait", guarded |-> TRUE, line |-> 589],
      [call |-> "page.evaluate", kind |-> "evaluation", guarded |-> FALSE, line |-> 595],
      [call |-> "extractProducts", kind |-> "evaluation", guarded |-> FALSE, line |-> 603],
      [call |-> "page.evaluate", kind |-> "evaluation", guarded |-> FALSE, line |-> 607],
      [call |-> "page.evaluate", kind |-> "evaluation", guarded |-> FALSE, line |-> 631]>>

Awaits == SessionAwaits \o SearchAwaits

\* the position of the awaited call of scrapeSearchResults at a source line
At(line) == CHOOSE i \in (Len(SessionAwaits) + 1)..Len(Awaits) : Awaits[i].line = line

\* scrapeSearchResults has returned
Returned == Len(Awaits) + 1

\* the awaited calls that can follow the call at position i: the sample of
\* hrefs is evaluated only when the page has links, the loop body is entered
\* or left at the top of the loop and at its breaks, the cleanup is the last
Succ(i) ==
    IF i <= Len(SessionAwaits) THEN {i + 1}
    ELSE IF Awaits[i].line = 97 THEN {At(112), At(123)}
    ELSE IF Awaits[i].line \in {169, 535} THEN {At(432), At(589)}
    ELSE {i + 1}

\* runScraper(config, onProgress) was called
InitRun ==
    /\ OthersIdle
    /\ ReaderIdle
    /\ ServerIdle
    /\ settled = "pending"
    /\ browser = "none"
    /\ spos = 1
    /\ ipc = "idle"
    /\ productUrls = <<>>
    /\ onProgress \in BOOLEAN
    /\ idx = 0
    /\ results = <<>>
    /\ events = <<>>
    /\ stats = ZeroStats
    /\ gotos = <<>>
    /\ productDoc = <<>>
    /\ profileDoc = <<>>
    /\ data = EmptyResult
    /\ pageData = EmptyResult
    /\ outcome = "none"
    /\ productData = FailedRecord(EmptyStr)
    /\ navigated = <<>>
    /\ csv = EmptyStr
    /\ failed = NoFailure

\* the awaited call resolves, and the next one is made
AwaitResolves ==
    /\ settled = "pending"
    /\ ipc = "idle"
    /\ spos \in 1..(Len(Awaits) - 1)
    /\ \E n \in Succ(spos) : spos' = n
    /\ browser' = IF spos = 1 THEN "open" ELSE browser
    /\ UNCHANGED <<canonVars, discoveryVars, itemVars, readerVars, serverVars, settled>>

\* the awaited call rejects inside a try whose catch goes on
CaughtRejection ==
    /\ settled = "pending"
    /\ ipc = "idle"
    /\ spos \in 1..(Len(Awaits) - 1)
    /\ Awaits[spos].guarded
    /\ \E n \in Succ(spos) : spos' = n
    /\ UNCHANGED <<canonVars, discoveryVars, itemVars, readerVars, serverVars, settled,
                   browser>>

\* the last awaited call of scrapeSearchResults resolves: it returns the list
SearchReturns ==
    /\ settled = "pending"
    /\ ipc = "idle"
    /\ spos = Len(Awaits)
    /\ spos' = Returned
    /\ productUrls' \in UrlLists
    /\ ipc' = "start"
    /\ UNCHANGED <<canonVars, discoveryVars, readerVars, serverVars, settled, browser,
                   onProgress, idx, results, events, stats, gotos, productDoc,
                   profileDoc, data, pageData, outcome, productData, navigated, csv,
                   failed>>

\* puppeteer.launch rejects, outside the try: runScraper rejects at once
LaunchFails ==
    /\ settled = "pending"
    /\ ipc = "idle"
    /\ spos = 1
    /\ failed' = Awaits[spos]
    /\ settled' = "rejected"
    /\ UNCHANGED <<canonVars, discoveryVars, readerVars, serverVars, browser, spos, ipc,
                   productUrls, onProgress, idx, results, events, stats, gotos,
                   productDoc, profileDoc, data, pageData, outcome, productData,
                   navigated, csv>>

\* an awaited call outside every catch rejects: the rejection leaves
\* scrapeSearchResults and the try block of runScraper
AwaitRejects ==
    /\ settled = "pending"
    /\ ipc = "idle"
    /\ spos \in 2..Len(Awaits)
    /\ ~Awaits[spos].guarded
    /\ failed' = Awaits[spos]
    /\ ipc' = "threw"
    /\ UNCHANGED <<canonVars, discoveryVars, readerVars, serverVars, sessionVars,
                   productUrls, onProgress, idx, results, events, stats, gotos,
                   productDoc, profileDoc, data, pageData, outcome, productData,
                   navigated, csv>>

\* the finally block left out: the browser stays as it was
CloseSkipped(b) == b

\* await browser.close()
Close(b) == "closed"

\* finally { await browser.close() }: then the promise settles
CloseBrowser ==
    /\ settled = "pending"
    /\ ipc \in {"done", "threw"}
    /\ browser = "open"
    /\ browser' = Close(browser)
    /\ settled' = IF ipc = "done" THEN "resolved" ELSE "rejected"
    /\ UNCHANGED <<canonVars, discoveryVars, itemVars, readerVars, serverVars, spos>>

NextRun ==
    \/ AwaitResolves
    \/ CaughtRejection
    \/ SearchReturns
    \/ LaunchFails
    \/ AwaitRejects
    \/ NextItems
    \/ CloseBrowser

SpecRun == InitRun /\ [][NextRun]_vars

(**************************************************************************)
(* The server: POST /api/scrape                                           *)
(**************************************************************************)

\* String(v), for the values a JSON body can give maxProducts
ToStr(v) == IF v = Undefined THEN <<"u", "n", "d", "e", "f", "i", "n", "e", "d">> ELSE v

IsDigit(c) == \E i \in 1..Len(Digits) : Digits[i] = c

DigitValue(c) == (CHOOSE i \in 1..Len(Digits) : Digits[i] = c) - 1

\* the value of the longest prefix of digits of s, after the digits acc
RECURSIVE DigitsPrefix(_, _)
DigitsPrefix(s, acc) ==
    IF s = <<>> \/ ~IsDigit(Head(s)) THEN acc
    ELSE DigitsPrefix(Tail(s), 10 * acc + DigitValue(Head(s)))

\* parseInt(v, 10): white space is skipped, a sign is read, then the longest
\* prefix of digits; NaN when there is no digit
ParseInt(v) ==
    LET t == TrimStart(ToStr(v))
        neg == t # <<>> /\ Head(t) = "-"
        u == IF t # <<>> /\ Head(t) \in {"-", "+"} THEN Tail(t) ELSE t
    IN  IF u = <<>> \/ ~IsDigit(Head(u))
        THEN [isNaN |-> TRUE, n |-> 0]
        ELSE [isNaN |-> FALSE,
              n |-> IF neg THEN 0 - DigitsPrefix(u, 0) ELSE DigitsPrefix(u, 0)]

\* a range check that turns the upper limit away
OutOfRangeExclusive(n) == n < 1 \/ n >= 500

\* maxProductsNum < 1 || maxProductsNum > 500
OutOfRange(n) == n < 1 \/ n > 500

\* !searchQuery || typeof searchQuery !== 'string' || searchQuery.trim() === ''
BadQuery(q) == ~Truthy(q) \/ ~IsString(q) \/ Trim(q) = EmptyStr

\* isNaN(maxProductsNum) || maxProductsNum < 1 || maxProductsNum > 500
BadMaxProducts(m) == ParseInt(m).isNaN \/ OutOfRange(ParseInt(m).n)

\* the searchQuery values of the requests under test
QueryValues == {Undefined, NumberValue, EmptyStr, <<" ", " ">>, <<" ", "q", " ">>, <<"q">>}

\* the maxProducts values of the requests under test
MaxProductsValues ==
    {Undefined,
     <<>>,
     <<"a", "b", "c">>,
     <<"0">>,
     <<"1">>,
     <<"3">>,
     <<" ", "7">>,
     <<"1", "2", "a", "b", "c">>,
     <<"3", ".", "7">>,
     <<"5", "0", "0">>,
     <<"5", "0", "1">>,
     <<"-", "1">>,
     <<"+", "5">>}

\* the most progress events of one request
MaxEvents == 2

\* a request with a JSON object body has reached the handler
InitServer ==
    /\ OthersIdle
    /\ ItemsIdle
    /\ SessionIdle
    /\ ReaderIdle
    /\ PortsIdle
    /\ spc = "request"
    /\ reqQuery \in QueryValues
    /\ reqMax \in MaxProductsValues
    /\ status = 0
    /\ sse = <<>>
    /\ started = NoCall
    /\ pushed = <<>>
    /\ saved = "none"
    /\ body = NoBody

\* return res.status(400).json({ error: 'searchQuery is required ...' })
RejectQuery ==
    /\ spc = "request"
    /\ BadQuery(reqQuery)
    /\ status' = 400
    /\ spc' = "ended"
    /\ UNCHANGED <<canonVars, discoveryVars, itemVars, sessionVars, readerVars, portVars,
                   reqQuery, reqMax, sse, started, pushed, saved, body>>

\* return res.status(400).json({ error: 'maxProducts must be a number ...' })
RejectMaxProducts ==
    /\ spc = "request"
    /\ ~BadQuery(reqQuery)
    /\ BadMaxProducts(reqMax)
    /\ status' = 400
    /\ spc' = "ended"
    /\ UNCHANGED <<canonVars, discoveryVars, itemVars, sessionVars, readerVars, portVars,
                   reqQuery, reqMax, sse, started, pushed, saved, body>>

\* the stream headers, the connected event, and the call of runScraper
StartScrape ==
    /\ spc = "request"
    /\ ~BadQuery(reqQuery)
    /\ ~BadMaxProducts(reqMax)
    /\ status' = 200
    /\ sse' = Append(sse, "connected")
    /\ started' = [searchQuery |-> Trim(reqQuery), maxProducts |-> ParseInt(reqMax).n,
                   headless |-> TRUE]
    /\ spc' = "running"
    /\ UNCHANGED <<canonVars, discoveryVars, itemVars, sessionVars, readerVars, portVars,
                   reqQuery, reqMax, pushed, saved, body>>

\* the records runScraper hands to the progress callback
Scraped == {FailedRecord(UrlOf(k)) : k \in 1..MaxUrls}

\* runScraper calls onProgress: results.push(data.product) and a progress
\* event is written
WriteProgress ==
    /\ spc = "running"
    /\ Len(sse) <= MaxEvents
    /\ Len(sse) <= started.maxProducts
    /\ \E product \in Scraped : pushed' = Append(pushed, product)
    /\ sse' = Append(sse, "progress")
    /\ UNCHANGED <<canonVars, discoveryVars, itemVars, sessionVars, readerVars, portVars,
                   spc, reqQuery, reqMax, status, started, saved, body>>

\* runScraper resolves: the then handler is entered
ScrapeResolves ==
    /\ spc = "running"
    /\ spc' = "saving"
    /\ UNCHANGED <<canonVars, discoveryVars, itemVars, sessionVars, readerVars, portVars,
                   reqQuery, reqMax, status, sse, started, pushed, saved, body>>

\* what runScraper resolved with after it handed these records to onProgress
RunResult(records) ==
    [results |-> records, stats |-> Stats(records), csv |-> ExportToCSV(records)]

\* the try around the save left out: a failed save rejects the then handler
AfterSaveUncaught(ok) == IF ok THEN "saved" ELSE "rejected"

\* try { new ScrapeResult(...); await scrapeResult.save() } catch (dbError)
\* { console.error(...) }: the handler goes on either way
AfterSave(ok) == "saved"

\* the save attempt finishes: save() resolves, or the constructor or save()
\* throws
SaveSettles ==
    /\ spc = "saving"
    /\ \E ok \in BOOLEAN :
        /\ saved' = IF ok THEN "ok" ELSE "failed"
        /\ spc' = AfterSave(ok)
    /\ UNCHANGED <<canonVars, discoveryVars, itemVars, sessionVars, readerVars, portVars,
                   reqQuery, reqMax, status, sse, started, pushed, body>>

\* res.end() left out: the handler can write again
KeepStreamOpen(at) == at

\* res.end()
EndStream(at) == "ended"

\* the data of the complete event
CompleteEvent(result) ==
    [results |-> result.results, stats |-> result.stats, csv |-> result.csv]

\* the complete event; res.end()
WriteComplete ==
    /\ spc = "saved"
    /\ body' = CompleteEvent(RunResult(pushed))
    /\ sse' = Append(sse, "complete")
    /\ spc' = EndStream(spc)
    /\ UNCHANGED <<canonVars, discoveryVars, itemVars, sessionVars, readerVars, portVars,
                   reqQuery, reqMax, status, started, pushed, saved>>

\* runScraper or the then handler rejects: the error event; res.end()
WriteError ==
    /\ spc \in {"running", "rejected"}
    /\ sse' = Append(sse, "error")
    /\ spc' = EndStream(spc)
    /\ UNCHANGED <<canonVars, discoveryVars, itemVars, sessionVars, readerVars, portVars,
                   reqQuery, reqMax, status, started, pushed, saved, body>>

NextServer ==
    \/ RejectQuery
    \/ RejectMaxProducts
    \/ StartScrape
    \/ WriteProgress
    \/ ScrapeResolves
    \/ SaveSettles
    \/ WriteComplete
    \/ WriteError

SpecServer == InitServer /\ [][NextServer]_vars

(**************************************************************************)
(* The start of the server: startServer                                   *)
(**************************************************************************)

\* const MAX_PORT_ATTEMPTS = 100
MAX_PORT_ATTEMPTS == 100

\* the decimal digits of a natural number
RECURSIVE Decimal(_)
Decimal(n) ==
    IF n < 10 THEN <<Digits[n + 1]>>
    ELSE Decimal(n \div 10) \o <<Digits[(n % 10) + 1]>>

\* String(v)
StringOf(v) == IF v.type = "string" THEN v.s ELSE Decimal(v.n)

\* a + b: concatenation as soon as one operand is a string
Plus(a, b) ==
    IF a.type = "string" \/ b.type = "string"
    THEN Str(StringOf(a) \o StringOf(b))
    ELSE Num(a.n + b.n)

\* process.env.PORT || 3000: a variable of the environment is a string or
\* is not set
BasePort(env) == IF Truthy(env) THEN Str(env) ELSE Num(3000)

\* the values of PORT under test
PortEnv == {Undefined, EmptyStr, <<"3", "0", "0", "0">>, <<"8", "0">>, <<"5">>}

\* the number app.listen reads a number or a string of digits as
PortNumber(v) == IF v.type = "number" THEN v.n ELSE DigitsPrefix(v.s, 0)

\* app.listen takes the port: above 65535 it throws a RangeError
LegalPort(v) == PortNumber(v) <= 65535

\* const nextPort = BASE_PORT + attempt + 1
NextPort(base, n) == Plus(Plus(base, Num(n)), Num(1))

\* startServer(BASE_PORT) is about to be called
InitPorts ==
    /\ OthersIdle
    /\ ItemsIdle
    /\ SessionIdle
    /\ ReaderIdle
    /\ spc = "idle"
    /\ reqQuery = EmptyStr
    /\ reqMax = EmptyStr
    /\ status = 0
    /\ sse = <<>>
    /\ started = NoCall
    /\ pushed = <<>>
    /\ saved = "none"
    /\ body = NoBody
    /\ ppc = "call"
    /\ BASE_PORT \in {BasePort(env) : env \in PortEnv}
    /\ port = BASE_PORT
    /\ attempt = 0
    /\ ports = <<>>
    /\ exitCode = 0

\* const server = app.listen(port, ...); server.on('error', ...)
Listen ==
    /\ ppc = "call"
    /\ LegalPort(port)
    /\ ports' = Append(ports, PortNumber(port))
    /\ ppc' = "listen"
    /\ UNCHANGED <<canonVars, discoveryVars, itemVars, sessionVars, readerVars,
                   requestVars, BASE_PORT, port, attempt, exitCode>>

\* app.listen(port) throws: nothing catches the RangeError and the process
\* ends with the exit code of an uncaught exception
ListenThrows ==
    /\ ppc = "call"
    /\ ~LegalPort(port)
    /\ exitCode' = 1
    /\ ppc' = "exited"
    /\ UNCHANGED <<canonVars, discoveryVars, itemVars, sessionVars, readerVars,
                   requestVars, BASE_PORT, port, attempt, ports>>

\* the port is free: the listen callback logs the address
Listening ==
    /\ ppc = "listen"
    /\ ppc' = "listening"
    /\ UNCHANGED <<canonVars, discoveryVars, itemVars, sessionVars, readerVars,
                   requestVars, BASE_PORT, port, attempt, ports, exitCode>>

\* error.code === 'EADDRINUSE' and attempt < MAX_PORT_ATTEMPTS:
\* startServer(nextPort, attempt + 1)
TryNextPort ==
    /\ ppc = "listen"
    /\ attempt < MAX_PORT_ATTEMPTS
    /\ port' = NextPort(BASE_PORT, attempt)
    /\ attempt' = attempt + 1
    /\ ppc' = "call"
    /\ UNCHANGED <<canonVars, discoveryVars, itemVars, sessionVars, readerVars,
                   requestVars, BASE_PORT, ports, exitCode>>

\* error.code === 'EADDRINUSE' and the attempts are used up: process.exit(1)
GiveUp ==
    /\ ppc = "listen"
    /\ ~(attempt < MAX_PORT_ATTEMPTS)
    /\ exitCode' = 1
    /\ ppc' = "exited"
    /\ UNCHANGED <<canonVars, discoveryVars, itemVars, sessionVars, readerVars,
                   requestVars, BASE_PORT, port, attempt, ports>>

\* any other error of the server: process.exit(1)
ServerError ==
    /\ ppc = "listen"
    /\ exitCode' = 1
    /\ ppc' = "exited"
    /\ UNCHANGED <<canonVars, discoveryVars, itemVars, sessionVars, readerVars,
                   requestVars, BASE_PORT, port, attempt, ports>>

NextPorts ==
    \/ Listen
    \/ ListenThrows
    \/ Listening
    \/ TryNextPort
    \/ GiveUp
    \/ ServerError

SpecPorts == InitPorts /\ [][NextPorts]_vars

(**************************************************************************)
(* The reader harness: exportToCSV, then a standard reader                *)
(**************************************************************************)

\* the longest field under test
MaxField == 3

\* the characters of the fields under test: the three that escapeCSV looks
\* for and an ordinary one
FieldChars == {",", "\"", "\n", "a"}

FieldStrings == UNION {[1..n -> FieldChars] : n \in 0..MaxField}

\* a record whose first field is any field string, whose third is empty or
\* not, and whose other fields but the URL are empty
InitCsv ==
    /\ OthersIdle
    /\ ItemsIdle
    /\ SessionIdle
    /\ ServerIdle
    /\ xpc = "input"
    /\ xRecord \in {[FailedRecord(UrlOf(1)) EXCEPT !.productName = f, !.creatorName = g] :
                      f \in FieldStrings, g \in {EmptyStr, <<"b">>}}
    /\ xCsv = EmptyStr
    /\ xRows = <<>>

\* exportToCSV([xRecord])
ReaderExport ==
    /\ xpc = "input"
    /\ xCsv' = ExportToCSV(<<xRecord>>)
    /\ xpc' = "exported"
    /\ UNCHANGED <<canonVars, discoveryVars, itemVars, sessionVars, serverVars,
                   xRecord, xRows>>

\* a standard reader reads the table back
ReaderRead ==
    /\ xpc = "exported"
    /\ xRows' = ReadCSV(xCsv)
    /\ xpc' = "read"
    /\ UNCHANGED <<canonVars, discoveryVars, itemVars, sessionVars, serverVars,
                   xRecord, xCsv>>

NextCsv ==
    \/ ReaderExport
    \/ ReaderRead

SpecCsv == InitCsv /\ [][NextCsv]_vars

(**************************************************************************)
(* Properties                                                             *)
(**************************************************************************)

PostLoopPcs == {"finalWait", "finalScroll", "finalExtract", "finalMerge", "cleanup", "done"}

IsPrefix(s, t) == Len(s) <= Len(t) /\ SubSeq(t, 1, Len(s)) = s

HasChar(s, c) == \E i \in 1..Len(s) : s[i] = c

\* an absolute URL whose path is exactly /discover/{org}/{product}: two
\* non-empty segments, no trailing slash, no query, no fragment, no "search"
IsCanonical(u) ==
    /\ MatchAnchored(u)
    /\ ~EndsWith(u, <<"/">>)
    /\ ~HasChar(u, "?")
    /\ ~HasChar(u, "#")
    /\ \A i \in 1..Len(SplitSlash(u)) : SplitSlash(u)[i] # SearchSeg

\* the product an entry denotes: the entry without query, fragment and trailing slash
ProductKey(u) == StripSlash(CleanHref(u))

\* C1: the returned list has at most maxProducts elements and is exactly the
\* first min(|products|, maxProducts) URLs of the discovered set, in
\* discovery order.
C1_ReturnsFirstInOrder ==
    pc = "done" =>
        /\ Len(productArray) <= maxProducts
        /\ Len(productArray) = (IF Len(products) <= maxProducts
                                THEN Len(products) ELSE maxProducts)
        /\ \A i \in 1..Len(productArray) : productArray[i] = products[i]

C1_Witness ==
    /\ pc = "done"
    /\ maxProducts >= 2
    /\ Len(products) > maxProducts
    /\ Len(productArray) = maxProducts

\* C2 as claimed: after the scroll loop and the final extraction pass, the
\* discovered set holds at most maxProducts URLs.
C2_SetWithinTarget ==
    pc \in {"cleanup", "done"} => Len(products) <= maxProducts

\* C2 as amended: after the scroll loop and the final extraction pass the
\* discovered set may hold more than maxProducts URLs; the list that is
\* returned holds at most maxProducts.
C2_ReturnedWithinTarget ==
    pc = "done" => Len(productArray) <= maxProducts

C2_Witness ==
    /\ pc = "done"
    /\ exit = "target"
    /\ scrollAttempts >= 1
    /\ Len(products) > maxProducts
    /\ Len(productArray) <= maxProducts

\* C3: within one run the discovered set only grows: no step decreases its
\* size and no URL that was added is ever removed (the set after a step
\* extends the set before it).
C3_OnlyGrows == [][IsPrefix(products, products')]_vars

C3_Witness ==
    /\ pc = "merge"
    /\ sizeAtEnter >= 1
    /\ Len(products) > sizeAtEnter

\* C4 as claimed: once the discovered set has been seen to reach maxProducts,
\* no pointer-move, wheel or scroll-to-bottom instruction is issued for the
\* rest of the run.
C4_NoInstructionAfterTarget ==
    [][exit = "target" =>
          /\ nMove' = nMove
          /\ nWheel' = nWheel
          /\ nScrollTo' = nScrollTo]_vars

\* C4 as amended: once the discovered set has reached maxProducts, no
\* pointer-move and no wheel instruction is issued for the rest of the run,
\* and the only scroll-to-bottom instruction issued is the single one of the
\* final extraction phase after the loop.
C4_OnlyFinalScrollAfterTarget ==
    [][(exit = "target" \/ Len(products) >= maxProducts) =>
          /\ nMove' = nMove
          /\ nWheel' = nWheel
          /\ nScrollTo' # nScrollTo => (pc = "finalScroll" /\ nScrollTo' = nScrollTo + 1)]_vars

C4_Witness ==
    /\ pc = "done"
    /\ exit = "target"
    /\ scrollAttempts >= 2
    /\ nMove = scrollAttempts
    /\ nScrollTo = scrollAttempts + 1

\* C5: when, below maxProducts, consecutive scroll iterations each add no URL
\* until their number reaches the tolerance, the loop has left through the
\* convergence branch (not the target-reached branch, not the cap) and runs
\* no further scroll iteration.
C5_ConvergesAtTolerance ==
    emptyIters >= ToleranceBelowTarget =>
        /\ exit = "converged"
        /\ pc \in PostLoopPcs
        /\ emptyIters = ToleranceBelowTarget

C5_Witness ==
    /\ pc = "finalWait"
    /\ exit = "converged"
    /\ emptyIters = ToleranceBelowTarget
    /\ scrollAttempts > ToleranceBelowTarget
    /\ Len(products) < maxProducts

\* C6: the number of scroll iterations never exceeds the maxScrollAttempts
\* value configured by the caller.
C6_WithinConfiguredAttempts ==
    scrollAttempts <= cfgMaxScrollAttempts

\* the steps one iteration still has to take, by statement
PcRank ==
    [ done |-> 0, cleanup |-> 1, finalMerge |-> 2, finalExtract |-> 3,
      finalScroll |-> 4, finalWait |-> 5, loopTop |-> 6, merge |-> 7,
      extract |-> 8, waitIdle |-> 9, waitFunction |-> 10, waitResponse |-> 11,
      scrollTo |-> 12, wheel |-> 13, move |-> 14, scan |-> 15, observe |-> 16,
      goto |-> 17 ]

\* an upper bound on the number of steps the run still takes
StepsLeft == (LoopMaxScrollAttempts - scrollAttempts) * 9 + PcRank[pc]

\* no statement of the run is waiting on something the page controls: the
\* run is at a statement that has a step, the three branches of the loop top
\* cover every case, and the predicate wait settles
NotBlocked ==
    /\ pc \in DOMAIN PcRank
    /\ pc = "loopTop" =>
           \/ ~LoopContinues(scrollAttempts)
           \/ LoopContinues(scrollAttempts) /\ ReachedTarget(Len(products), maxProducts)
           \/ LoopContinues(scrollAttempts) /\ ~ReachedTarget(Len(products), maxProducts)
    /\ pc = "waitFunction" =>
           PredicateWaitSettles(ProductCountInDOM(doc) > currentProductCountInDOM)

\* C7: provided every wait and page call settles, every run of
\* scrapeSearchResults eventually reaches its return statement, whatever the
\* page attaches: until the return no statement blocks, and every step of the
\* run lowers a natural-number bound on the steps left, so under the fairness
\* of FairSpec the return is reached.
C7_Returns ==
    /\ [](pc = "done" \/ NotBlocked)
    /\ [](StepsLeft \in Nat)
    /\ [][Run => StepsLeft' < StepsLeft]_vars

C7_Witness ==
    /\ pc = "done"
    /\ exit = "cap"
    /\ scrollAttempts = LoopMaxScrollAttempts

\* C8: every URL of the returned list is canonical.
C8_AllCanonical ==
    pc = "done" => \A i \in 1..Len(productArray) : IsCanonical(productArray[i])

\* C9: no two entries of the returned list denote the same product.
C9_NoDuplicateProduct ==
    pc = "done" =>
        \A i, j \in 1..Len(productArray) :
            i < j => ProductKey(productArray[i]) # ProductKey(productArray[j])

\* C10: for every href the extraction pass accepts, its output contains no
\* '?', no '#' and no trailing slash, and canonicalising that output again
\* returns the same string.
C10_CanonIdempotent ==
    /\ (cpc \in {"once", "twice"} /\ cOut # NoUrl) =>
           /\ ~HasChar(cOut, "?")
           /\ ~HasChar(cOut, "#")
           /\ ~EndsWith(cOut, <<"/">>)
    /\ cpc = "twice" => cOut2 = cOut

C10_Witness ==
    /\ cpc = "twice"
    /\ cOut # NoUrl
    /\ HasChar(cHref, "?")
    /\ HasChar(cHref, "#")
    /\ cOut # cHref

\* C11: no href that has a path segment equal to search, or that contains
\* the substring /search, is ever added to the discovered set, whichever
\* path it arrives by (the three extraction layers, the two merges of the
\* mutation accumulator).
C11_NoSearchHrefAdded ==
    \A i \in 1..Len(products) : ~Includes(products[i], SlashSearch)

(**************************************************************************)
(* Properties of the item loop and of scrapeProductPage                   *)
(**************************************************************************)

\* the names of the ten fields of a record other than productUrl
DataKeys == DOMAIN EmptyResult

\* the seven social fields as a set
SocialKeySet == Range(SocialKeys)

\* C12: scrapeProductPage always returns; when the product-page navigation
\* or the page evaluation failed, the record it returns has the input URL
\* as productUrl and the empty string in each of its ten other fields.
C12_FailureGivesBlankRecord ==
    (ipc = "returned" /\ outcome \in {"gotoFailed", "evaluateFailed"}) =>
           /\ DOMAIN productData = DataKeys \cup {"productUrl"}
           /\ productData.productUrl = Url
           /\ \A k \in DataKeys : productData[k] = EmptyStr

C12_Witness ==
    /\ ipc = "returned"
    /\ outcome = "evaluateFailed"
    /\ productDoc = <<PageFull>>
    /\ productData.productUrl = UrlOf(2)

\* C13: whatever items fail, the result list holds one record per
\* discovered URL, in the order of the discovered list: results[i].productUrl
\* is productUrls[i], and the returned list is as long as the discovered one.
C13_OneRecordPerUrl ==
    /\ Len(results) <= Len(productUrls)
    /\ \A k \in 1..Len(results) : results[k].productUrl = productUrls[k]
    /\ ipc \in {"loop", "goto", "evaluate", "fallback", "profileEvaluate", "returned"} =>
           Len(results) = idx
    /\ ipc = "done" => Len(results) = Len(productUrls)

C13_Witness ==
    /\ ipc = "done"
    /\ Len(productUrls) = MaxUrls
    /\ productUrls[1] = UrlOf(2)
    /\ results[1].productName = EmptyStr
    /\ results[2].twitter # EmptyStr

\* one step of the fold of the stats over the records
AddToStats(s, r) ==
    [total |-> s.total + 1,
     withTwitter |-> s.withTwitter + (IF r.twitter # EmptyStr THEN 1 ELSE 0),
     withInstagram |-> s.withInstagram + (IF r.instagram # EmptyStr THEN 1 ELSE 0),
     withYouTube |-> s.withYouTube + (IF r.youtube # EmptyStr THEN 1 ELSE 0),
     withTikTok |-> s.withTikTok + (IF r.tiktok # EmptyStr THEN 1 ELSE 0),
     withDiscord |-> s.withDiscord + (IF r.discord # EmptyStr THEN 1 ELSE 0),
     withLinkedIn |-> s.withLinkedIn + (IF r.linkedin # EmptyStr THEN 1 ELSE 0),
     withTelegram |-> s.withTelegram + (IF r.telegram # EmptyStr THEN 1 ELSE 0)]

\* the fold over the first n records of rs, from all-zero stats
RECURSIVE FoldStats(_, _)
FoldStats(rs, n) ==
    IF n = 0
    THEN [total |-> 0, withTwitter |-> 0, withInstagram |-> 0, withYouTube |-> 0,
          withTikTok |-> 0, withDiscord |-> 0, withLinkedIn |-> 0, withTelegram |-> 0]
    ELSE AddToStats(FoldStats(rs, n - 1), rs[n])

\* C14: with a progress callback, the callback has been called once per
\* record produced, so n times in a run over n URLs; the k-th call carries
\* the k-th record, position k, total n and the stats folded over the first
\* k records; the returned stats are the fold over all the records.
C14_ProgressPerRecord ==
    /\ onProgress =>
           /\ Len(events) = Len(results)
           /\ \A k \in 1..Len(events) :
                  /\ events[k].product = results[k]
                  /\ events[k].current = k
                  /\ events[k].total = Len(productUrls)
                  /\ events[k].stats = FoldStats(results, k)
    /\ ~onProgress => events = <<>>
    /\ ipc = "done" =>
           /\ onProgress => Len(events) = Len(productUrls)
           /\ stats = FoldStats(results, Len(results))

C14_Witness ==
    /\ ipc = "done"
    /\ onProgress
    /\ Len(events) = MaxUrls
    /\ events[1].stats.withYouTube = 1
    /\ events[1].stats.withTwitter = 0
    /\ events[MaxUrls].stats.withTwitter = 1
    /\ stats.total = MaxUrls

\* C15: when the profile fallback ran, a social field the product page
\* populated holds its product-page value in the returned record; a field
\* that differs from the product page's was empty there and holds the
\* profile page's value.
C15_FallbackKeepsProductValues ==
    (ipc = "returned" /\ outcome = "merged") =>
        \A k \in SocialKeySet :
            /\ pageData[k] # EmptyStr => productData[k] = pageData[k]
            /\ productData[k] # pageData[k] =>
                   /\ pageData[k] = EmptyStr
                   /\ productData[k] = EvaluateProfileOf[profileDoc[1]][k]

C15_Witness ==
    /\ ipc = "returned"
    /\ outcome = "merged"
    /\ pageData.youtube = HrefYoutubeA
    /\ EvaluateProfileOf[profileDoc[1]].youtube = HrefYoutubeB
    /\ productData.youtube = HrefYoutubeA
    /\ productData.twitter = HrefTwitterB

\* C16: scrapeProductPage navigates to the creator profile page if and only
\* if the product page yielded no social link in any of the seven
\* categories and a creator handle was identified.
C16_FallbackIffNoSocial ==
    (ipc = "returned" /\ outcome \notin {"gotoFailed", "evaluateFailed"}) =>
        ((Len(gotos) = 2)
            <=> /\ \A k \in SocialKeySet : pageData[k] = EmptyStr
                /\ pageData.creatorHandle # EmptyStr)

\* C17: when the profile fallback fails, in its navigation or in its
\* evaluation, the returned record is the record as extracted from the
\* product page: every field has its product-page value.
C17_FailedFallbackKeepsRecord ==
    (ipc = "returned" /\ outcome \in {"profileGotoFailed", "profileEvaluateFailed"}) =>
        /\ productData.productUrl = Url
        /\ \A k \in DataKeys : productData[k] = pageData[k]

C17_Witness ==
    /\ ipc = "returned"
    /\ outcome = "profileEvaluateFailed"
    /\ profileDoc = <<ProfileSocials>>
    /\ pageData.youtube # EmptyStr
    /\ productData.youtube = pageData.youtube
    /\ productData.creatorName # EmptyStr

\* the text after the last '/' of an href
RECURSIVE LastSegment(_)
LastSegment(s) == IF HasChar(s, "/") THEN LastSegment(Tail(s)) ELSE s

\* the href names a house account: its last path segment, without a
\* leading '@' and in lower case, is a handle of the denylist
RefersToHouse(href) ==
    LET seg == LastSegment(href)
        name == IF seg # <<>> /\ Head(seg) = "@" THEN Tail(seg) ELSE seg
    IN \E i \in 1..Len(WHOP_HANDLES) : WHOP_HANDLES[i] = ToLowerCase(name)

\* the href matches a pattern of the platform table
MatchesCategory(href, k) ==
    LET l == ToLowerCase(href) IN
    CASE k = "twitter" -> Includes(l, TwitterCom) \/ Includes(l, XCom)
      [] k = "instagram" -> Includes(l, InstagramCom)
      [] k = "youtube" -> Includes(l, YoutubeCom)
      [] k = "tiktok" -> Includes(l, TiktokCom)
      [] k = "discord" -> Includes(l, DiscordGg) \/ Includes(l, DiscordCom)
      [] k = "linkedin" -> Includes(l, LinkedinCom)
      [] k = "telegram" -> Includes(l, TMe)

\* C18: no social field of a returned record holds an href that names a
\* house account, whether it came from the product page or from the
\* profile page, also when that href is the only one of its platform.
C18_HouseNeverStored ==
    /\ ipc = "returned" =>
           \A k \in SocialKeySet :
               productData[k] # EmptyStr => ~RefersToHouse(productData[k])
    /\ \A n \in 1..Len(results) : \A k \in SocialKeySet :
           results[n][k] # EmptyStr => ~RefersToHouse(results[n][k])

C18_Witness ==
    /\ ipc = "returned"
    /\ outcome = "merged"
    /\ \E a \in Range(productDoc[1].anchors) :
           /\ RefersToHouse(a)
           /\ MatchesCategory(a, "twitter")
           /\ \A b \in Range(productDoc[1].anchors) : MatchesCategory(b, "twitter") => b = a
    /\ \E a \in Range(profileDoc[1].anchors) :
           /\ RefersToHouse(a)
           /\ MatchesCategory(a, "twitter")
           /\ \A b \in Range(profileDoc[1].anchors) : MatchesCategory(b, "twitter") => b = a
    /\ productData.twitter = EmptyStr

\* the structured-data blocks that are product-type entries with a brand name
BrandBlocks(p) ==
    SelectSeq(p.jsonLd,
              LAMBDA b : b.parsed = "object" /\ b.type = ProductType /\ b.brandName # EmptyStr)

\* C19: when several structured-data blocks of the product page are
\* product-type entries with a brand name, creatorName is the brand name of
\* the first of them in document order.
C19_FirstBrandWins ==
    (ipc = "fallback" /\ Len(BrandBlocks(productDoc[1])) >= 2) =>
        pageData.creatorName = BrandBlocks(productDoc[1])[1].brandName

\* the first anchor, in document order and after the house-account filter,
\* whose href matches a pattern of category k; EmptyStr when there is none
FirstMatch(anchors, k) ==
    LET kept == SelectSeq(anchors, LAMBDA a : ~IsWhopSocial(a) /\ MatchesCategory(a, k))
    IN IF kept = <<>> THEN EmptyStr ELSE kept[1]

\* in the scan of the product page, a populated field is left alone by
\* every later anchor
ProductScanKeeps(anchors) ==
    \A n \in 1..Len(anchors) : \A k \in SocialKeySet :
        LET before == ScanProductLinks(SubSeq(anchors, 1, n - 1), EmptyResult)
            after == ScanProductLinks(SubSeq(anchors, 1, n), EmptyResult)
        IN before[k] # EmptyStr => after[k] = before[k]

\* in the scan of the profile page, a populated field is left alone by
\* every later anchor
ProfileScanKeeps(anchors) ==
    \A n \in 1..Len(anchors) : \A k \in SocialKeySet :
        LET before == ScanProfileLinks(SubSeq(anchors, 1, n - 1), EmptySocials)
            after == ScanProfileLinks(SubSeq(anchors, 1, n), EmptySocials)
        IN before[k] # EmptyStr => after[k] = before[k]

\* C20: in the scan of one page, product or profile, the final value of
\* each social category is the first anchor in document order, after the
\* house-account filter, whose href matches the category's pattern, and
\* once a field is populated no later anchor changes it.
C20_FirstMatchPerCategory ==
    /\ ipc = "fallback" =>
           /\ \A k \in SocialKeySet : pageData[k] = FirstMatch(productDoc[1].anchors, k)
           /\ ProductScanKeeps(productDoc[1].anchors)
    /\ (ipc = "returned" /\ outcome = "merged") =>
           /\ \A k \in SocialKeySet :
                  EvaluateProfileOf[profileDoc[1]][k] = FirstMatch(profileDoc[1].anchors, k)
           /\ ProfileScanKeeps(profileDoc[1].anchors)


(**************************************************************************)
(* The waits of one scroll iteration, the final pass, the initial scan    *)
(**************************************************************************)

\* C26 (as stated): the loop applies the tolerance that belongs to the size of
\* the set: a run that leaves the loop before the iteration cap with
\* |products| < maxProducts has converged after 5 consecutive empty
\* iterations, and one that leaves it with |products| >= maxProducts has
\* converged after 3.
C26_ToleranceThreeAtTarget ==
    pc = "finalWait" /\ exit # "cap" =>
        /\ exit = "converged"
        /\ noNewContentCount =
              IF Len(products) < maxProducts THEN ToleranceBelowTarget ELSE ToleranceAtTarget

\* what the loop does instead: it stops by convergence only with |products| <
\* maxProducts and only after exactly 5 consecutive empty iterations; while
\* the loop runs the counter stays below 5, and no run stops by convergence
\* after 3, because a set that has reached maxProducts ends the loop before
\* the tolerance is looked at.
ConvergesOnlyBelowTarget ==
    /\ exit = "converged" =>
          /\ noNewContentCount = ToleranceBelowTarget
          /\ emptyIters = ToleranceBelowTarget
          /\ previousProductCount < maxProducts
    /\ exit = "none" => noNewContentCount < ToleranceBelowTarget
    /\ pc = "loopTop" /\ noNewContentCount >= ToleranceAtTarget =>
          Len(products) < maxProducts

\* C27: in every scroll iteration, whatever the outcome of the response wait
\* the predicate wait is attempted next, whatever the outcome of the
\* predicate wait the idle wait is attempted next, whatever the outcome of
\* the idle wait the extraction pass runs next, and the extraction pass hands
\* over to the merge that ends the iteration: no outcome of a wait leaves the
\* loop.
C27_WaitsNeverAbort ==
    [][/\ pc = "waitResponse" => pc' = "waitFunction" /\ Len(waits') = 1
       /\ pc = "waitFunction" => \/ pc' = "waitFunction" /\ waits' = waits
                                 \/ pc' = "waitIdle" /\ Len(waits') = 2
       /\ pc = "waitIdle" => pc' = "extract" /\ Len(waits') = 3
       /\ pc = "extract" => pc' = "merge" /\ exit' = "none"]_vars

\* all three waits of an iteration timed out and the extraction pass is next
C27_Witness ==
    /\ pc = "extract"
    /\ waits = <<FALSE, FALSE, FALSE>>
    /\ exit = "none"

C29_FirstNonEmptyLayer ==
    pc = "loopTop" /\ scrollAttempts = 0 =>
        LET a == Strategy1(doc)
            b == Strategy2(doc)
            c == Strategy3(doc)
        IN  /\ a # <<>> => products = a
            /\ a = <<>> /\ b # <<>> => products = b
            /\ a = <<>> /\ b = <<>> => products = c

\* layers (a) and (b) found nothing and layer (c) supplied the product set
C29_Witness ==
    /\ pc = "loopTop"
    /\ scrollAttempts = 0
    /\ Strategy1(doc) = <<>>
    /\ Strategy2(doc) = <<>>
    /\ Strategy3(doc) # <<>>
    /\ products = Strategy3(doc)


(**************************************************************************)
(* Navigations of the item loop                                           *)
(**************************************************************************)

\* the number of page.goto calls of the item loop made with url
TimesNavigated(url) == Cardinality({j \in 1..Len(navigated) : navigated[j] = url})

\* page.goto was called for the k-th discovered URL
NavigationIssued(k) ==
    \/ k <= idx
    \/ k = idx + 1 /\ ipc \in {"evaluate", "fallback", "profileEvaluate", "returned"}

\* C30: within one run every discovered product URL is navigated to exactly
\* once, whether or not the navigation or the evaluation failed, and never
\* before its turn; every other navigation is to a creator profile page and
\* directly follows the navigation to the product URL of its item, so an item
\* causes at most one additional navigation.
C30_OneNavigationPerUrl ==
    /\ \A k \in 1..Len(productUrls) :
          TimesNavigated(productUrls[k]) = IF NavigationIssued(k) THEN 1 ELSE 0
    /\ \A j \in 1..Len(navigated) :
          navigated[j] \notin Range(productUrls) =>
              /\ StartsWith(navigated[j], WhopOrigin \o <<"/", "@">>)
              /\ j > 1
              /\ navigated[j - 1] \in Range(productUrls)
    /\ ipc = "returned" =>
          /\ gotos \in {<<Url>>, <<Url, ProfileUrl(pageData)>>}
          /\ outcome \in {"gotoFailed", "evaluateFailed"} => gotos = <<Url>>

\* two URLs: the navigation to the first failed, the second item caused a
\* profile navigation; three navigations in all
C30_Witness ==
    /\ ipc = "done"
    /\ Len(productUrls) = 2
    /\ results[1] = FailedRecord(productUrls[1])
    /\ navigated = <<productUrls[1], productUrls[2], ProfileUrl(results[2])>>


(**************************************************************************)
(* The serializer                                                         *)
(**************************************************************************)

\* the fields of a record in column order
FieldsOf(r) == [k \in 1..Len(Columns) |-> r[Columns[k]]]

\* C23: for every field string over comma, double quote, newline and an
\* ordinary character, a standard reader of the table exportToCSV wrote finds
\* the header and then the record with exactly the original fields, so
\* escapeCSV followed by standard unescaping is the identity; and an empty
\* field is written as nothing at all between its delimiters.
C23_EscapeRoundTrip ==
    /\ xpc = "read" => xRows = <<Headers, FieldsOf(xRecord)>>
    /\ xpc \in {"exported", "read"} /\ xRecord.productName = EmptyStr
                                   /\ xRecord.creatorName = EmptyStr =>
          xCsv = HeaderOnly \o <<"\n", ",">> \o xRecord.productUrl
                   \o <<",", ",", ",", ",", ",", ",", ",", ",", ",">>

\* a field holding a quote, a comma and a newline was written and read back
C23_Witness ==
    /\ xpc = "read"
    /\ xRecord.productName = <<"\"", ",", "\n">>
    /\ xRows[2][1] = xRecord.productName
    /\ xRows[2][3] = EmptyStr


(**************************************************************************)
(* Failures and the result of runScraper                                  *)
(**************************************************************************)

\* C21: a run is never aborted by the failure of a single navigation or page
\* evaluation: when runScraper rejects, the call that failed is neither a
\* navigation nor an evaluation.
C21_SingleFailureNeverAborts ==
    settled = "rejected" => failed.kind \notin {"navigation", "evaluation"}

\* C22: when the discovery phase has returned no URL, runScraper does not
\* throw; it returns an empty record list, all-zero stats and a table that is
\* the header line alone, the progress callback was not called and no page
\* was navigated to; once the browser is closed the promise is resolved.
C22_ZeroProductsResult ==
    spos = Returned /\ productUrls = <<>> /\ ipc # "start" =>
        /\ ipc = "done"
        /\ failed = NoFailure
        /\ results = <<>>
        /\ \A k \in DOMAIN stats : stats[k] = 0
        /\ csv = Join(Headers, <<",">>)
        /\ events = <<>>
        /\ navigated = <<>>
        /\ settled = IF browser = "closed" THEN "resolved" ELSE "pending"

\* a caller that passed a progress callback got the zero-product result
C22_Witness ==
    /\ settled = "resolved"
    /\ spos = Returned
    /\ productUrls = <<>>
    /\ onProgress
    /\ csv = HeaderOnly

\* C24: whatever the structured-data blocks of a product page hold,
\* scrapeProductPage returns a record with every field, and the run is not
\* ended by the serialization of the records.
C24_StructuredDataNeverFatal ==
    /\ ipc = "returned" => DOMAIN productData = DOMAIN FailedRecord(EmptyStr)
    /\ failed.kind # "serialization"

\* the browser was launched: the await of puppeteer.launch has resolved
Launched == spos > 1

\* C32: in every run of runScraper in which the browser was launched, the
\* browser is closed before the promise settles, with a full result, with the
\* zero-product result or with a rejection; an open browser means that the
\* promise is still pending.
C32_BrowserClosedBeforeSettling ==
    /\ settled # "pending" /\ Launched => browser = "closed"
    /\ browser = "open" => settled = "pending"

\* a run that was rejected because the serialization of the records threw,
\* after its browser was closed
C32_Witness ==
    /\ Launched
    /\ settled = "rejected"
    /\ failed.kind = "serialization"
    /\ browser = "closed"

\* C34: a failure to write the CSV file at the end of a run does not discard
\* the scraped records: runScraper is not rejected because of it.
C34_WriteFailureKeepsResults ==
    failed.call = "fs.writeFileSync" => ipc # "threw" /\ settled # "rejected"

(**************************************************************************)
(* The validation of POST /api/scrape                                     *)
(**************************************************************************)

\* the request names a query: a string with a character that is not a blank
NamesQuery == IsString(reqQuery) /\ \E i \in 1..Len(reqQuery) : reqQuery[i] # " "

\* maxProducts parses to an integer in 1..500
NamesMaxProducts == \E n \in 1..500 : ParseInt(reqMax) = [isNaN |-> FALSE, n |-> n]

\* C25: once the handler has dealt with the request, a scrape was started
\* exactly when searchQuery is a string that is non-empty after trimming and
\* maxProducts parses to an integer in 1..500, and then with the trimmed
\* query and the parsed number; every other request got status 400, started
\* no scrape and no stream event was written for it.
C25_ValidRequestsOnly ==
    spc # "request" =>
        IF NamesQuery /\ NamesMaxProducts
        THEN /\ started # NoCall
             /\ started.maxProducts \in 1..500
             /\ started.searchQuery # EmptyStr
             /\ Head(started.searchQuery) # " "
             /\ status = 200
             /\ Head(sse) = "connected"
        ELSE /\ status = 400
             /\ started = NoCall
             /\ sse = <<>>
             /\ spc = "ended"

\* a padded query and a number followed by letters started a scrape
C25_Witness ==
    /\ reqQuery = <<" ", "q", " ">>
    /\ reqMax = <<"1", "2", "a", "b", "c">>
    /\ started = [searchQuery |-> <<"q">>, maxProducts |-> 12, headless |-> TRUE]
    /\ spc = "ended"
    /\ sse[Len(sse)] = "complete"

(**************************************************************************)
(* The event stream of POST /api/scrape                                   *)
(**************************************************************************)

\* the terminal events
Terminal == {"complete", "error"}

\* the positions of the stream at which an event of this type was written
Written(type) == {i \in 1..Len(sse) : sse[i] = type}

\* C31: the stream of an accepted request is one connected event, then the
\* progress events, one for each product in the order the products were
\* handed over, then at most one terminal event, complete or error, which is
\* the last event and comes with the end of the stream; an ended stream has
\* its terminal event, and the complete event carries the products in the
\* order of the progress events.
C31_StreamOrder ==
    status = 200 =>
        /\ Written("connected") = {1}
        /\ Written("progress") = {i + 1 : i \in 1..Len(pushed)}
        /\ Cardinality(Written("complete") \cup Written("error")) <= 1
        /\ \A i \in 1..Len(sse) : sse[i] \in Terminal => i = Len(sse) /\ spc = "ended"
        /\ spc = "ended" => sse[Len(sse)] \in Terminal
        /\ Written("complete") # {} => body.results = pushed

\* a stream of four events: connected, two progress events for two different
\* products, complete
C31_Witness ==
    /\ spc = "ended"
    /\ sse = <<"connected", "progress", "progress", "complete">>
    /\ Len(pushed) = 2
    /\ pushed[1] # pushed[2]
    /\ body.results = pushed

\* C33: the complete event is written only after the save attempt has
\* finished, and a request whose save failed goes on to the complete event:
\* no error event is written for it, and once its stream has ended the last
\* event is complete and carries the records, their stats and their table.
C33_SaveFailureStillCompletes ==
    /\ Written("complete") # {} => saved # "none"
    /\ saved = "failed" =>
        /\ spc \in {"saved", "ended"}
        /\ Written("error") = {}
        /\ spc = "ended" =>
            /\ sse[Len(sse)] = "complete"
            /\ body.results = pushed
            /\ body.stats = Stats(pushed)
            /\ body.csv = ExportToCSV(pushed)

\* a request with one product whose save failed has ended with complete
C33_Witness ==
    /\ saved = "failed"
    /\ spc = "ended"
    /\ Len(pushed) = 1
    /\ sse = <<"connected", "progress", "complete">>
    /\ body.stats.total = 1
    /\ body.csv # HeaderOnly

(**************************************************************************)
(* The ports startServer tries                                            *)
(**************************************************************************)

\* C35: startServer gives app.listen at most MAX_PORT_ATTEMPTS ports in
\* total, the k-th of them being the number BASE_PORT + (k - 1), whether
\* BASE_PORT comes from the environment or from the default, and a process
\* that has exited has exit code 1.
C35_PortRetryLimit ==
    /\ Len(ports) <= MAX_PORT_ATTEMPTS
    /\ \A k \in 1..Len(ports) : ports[k] = PortNumber(BASE_PORT) + (k - 1)
    /\ ppc = "exited" => exitCode = 1

\* what the code does keep: one port more than MAX_PORT_ATTEMPTS at most, and
\* with the default BASE_PORT the ports are consecutive numbers
PortsTried ==
    /\ Len(ports) <= MAX_PORT_ATTEMPTS + 1
    /\ BASE_PORT.type = "number" =>
            \A k \in 1..Len(ports) : ports[k] = BASE_PORT.n + (k - 1)
    /\ ppc = "exited" => exitCode = 1

=============================================================================
